---- MODULE Spec2Model ----
(***************************************************************************)
(* The SmLL interpreter (src/src/interpreter.ts) run on abstract syntax    *)
(* trees, together with the grammar actions that build those trees         *)
(* (src/unnamed/part_001 and src/src/lexer-parser.ts).                      *)
(*                                                                         *)
(* JavaScript values are records tagged with their typeof:                 *)
(*   string    [t, s]      s is the sequence of the string's characters    *)
(*   number    [t, n, d]   the rational n/d, d > 0, in lowest terms;       *)
(*                         d = 0 is NaN (n = 0), Infinity (n = 1) and      *)
(*                         -Infinity (n = -1); -0 is identified with 0 and *)
(*                         binary rounding is not modelled                 *)
(*   boolean   [t, b]                                                      *)
(*   symbol    [t, id]     a Symbol(), id is its allocation number         *)
(*   undefined [t]                                                         *)
(* AST nodes are records [kind, children, ...] with the fields their       *)
(* constructor sets.                                                       *)
(***************************************************************************)
EXTENDS Integers, Sequences, FiniteSets

\* ------------------------------------------------------------------------
\* JavaScript values
\* ------------------------------------------------------------------------
Undefined == [t |-> "undefined"]
Str(chars) == [t |-> "string", s |-> chars]
Bool(b) == [t |-> "boolean", b |-> b]
Symbol(i) == [t |-> "symbol", id |-> i]

TypeOf(v) == IF "t" \in DOMAIN v THEN v.t ELSE "object"

Abs(i) == IF i < 0 THEN -i ELSE i
Sign(i) == IF i < 0 THEN -1 ELSE IF i > 0 THEN 1 ELSE 0

RECURSIVE Gcd(_, _)
Gcd(a, b) == IF b = 0 THEN a ELSE Gcd(b, a % b)

\* the number n/d in canonical form
Num(n, d) ==
    IF d = 0 THEN [t |-> "number", n |-> Sign(n), d |-> 0]
    ELSE LET g == Gcd(Abs(n), Abs(d))
         IN  [t |-> "number", n |-> (Sign(d) * n) \div g, d |-> Abs(d) \div g]

NumInt(i) == Num(i, 1)
NaN == Num(0, 0)
Infinity == Num(1, 0)
IsNaN(v) == TypeOf(v) = "number" /\ v.d = 0 /\ v.n = 0
IsFinite(v) == TypeOf(v) = "number" /\ v.d # 0
IsInteger(v) == TypeOf(v) = "number" /\ v.d = 1

\* === on primitives: NaN is not equal to itself
StrictEquals(a, b) == IF IsNaN(a) \/ IsNaN(b) THEN FALSE ELSE a = b

\* value1 + value2
JsAdd(a, b) ==
    IF IsNaN(a) \/ IsNaN(b) THEN NaN
    ELSE IF a.d = 0 /\ b.d = 0 THEN (IF a.n = b.n THEN a ELSE NaN)
    ELSE IF a.d = 0 THEN a
    ELSE IF b.d = 0 THEN b
    ELSE Num(a.n * b.d + b.n * a.d, a.d * b.d)

JsNeg(a) == [a EXCEPT !.n = -a.n]

\* value1 - value2
JsSub(a, b) == JsAdd(a, JsNeg(b))

\* value1 * value2
JsMul(a, b) == Num(a.n * b.n, a.d * b.d)

\* value1 / value2, for value2 !== 0
JsDiv(a, b) == Num(a.n * b.d * Sign(b.n), a.d * Abs(b.n))

\* Math.floor(x)
MathFloor(a) == IF a.d = 0 THEN a ELSE NumInt(a.n \div a.d)

\* Math.trunc(x), used by the remainder
MathTrunc(a) == IF a.d = 0 THEN a ELSE NumInt(Sign(a.n) * (Abs(a.n) \div a.d))

\* value1 % value2, for value2 !== 0: the remainder has the dividend's sign
JsRem(a, b) ==
    IF IsNaN(a) \/ IsNaN(b) \/ a.d = 0 THEN NaN
    ELSE IF b.d = 0 THEN a
    ELSE JsSub(a, JsMul(b, MathTrunc(JsDiv(a, b))))

RECURSIVE PowNat(_, _)
PowNat(a, k) == IF k = 0 THEN NumInt(1) ELSE JsMul(a, PowNat(a, k - 1))

\* Math.pow(base, exponent) for the exponents the model produces: NaN and
\* the integers (a fractional or infinite exponent is outside the model's
\* programs)
MathPow(a, b) ==
    IF IsNaN(b) THEN NaN
    ELSE IF b.n = 0 THEN NumInt(1)
    ELSE IF IsNaN(a) THEN NaN
    ELSE IF b.n > 0 THEN PowNat(a, b.n)
    ELSE IF a.n = 0 THEN Infinity
    ELSE JsDiv(NumInt(1), PowNat(a, -b.n))

\* `<=` where `<` is meant
MutJsLessOrEqual(a, b) ==
    IF IsNaN(a) \/ IsNaN(b) THEN FALSE
    ELSE IF a.d = 0 \/ b.d = 0 THEN StrictEquals(a, b) \/ (IF a.d = 0 THEN a.n < 0 ELSE b.n > 0)
    ELSE a.n * b.d <= b.n * a.d

JsLess(a, b) ==
    IF IsNaN(a) \/ IsNaN(b) THEN FALSE
    ELSE IF a.d = 0 \/ b.d = 0 THEN
        (IF a.d = 0 /\ b.d = 0 THEN a.n < b.n
         ELSE IF a.d = 0 THEN a.n < 0 ELSE b.n > 0)
    ELSE a.n * b.d < b.n * a.d

JsLessEq(a, b) == JsLess(a, b) \/ StrictEquals(a, b)

\* ------------------------------------------------------------------------
\* Number(x) and Boolean(x) as evaluate applies them to valueNode.token
\* ------------------------------------------------------------------------
Digits == <<"0", "1", "2", "3", "4", "5", "6", "7", "8", "9">>
IsDigit(c) == \E i \in 1..10 : Digits[i] = c
DigitValue(c) == (CHOOSE i \in 1..10 : Digits[i] = c) - 1

RECURSIVE DigitsValue(_)
DigitsValue(cs) ==
    IF cs = <<>> THEN 0
    ELSE 10 * DigitsValue(SubSeq(cs, 1, Len(cs) - 1)) + DigitValue(cs[Len(cs)])

RECURSIVE Pow10(_)
Pow10(k) == IF k = 0 THEN 1 ELSE 10 * Pow10(k - 1)

\* Number(x): undefined is NaN; a string of digits with at most one "." is
\* the decimal it spells, any other non-empty string is NaN, "" is 0
ToNumber(x) ==
    IF x.t = "number" THEN x
    ELSE IF x.t = "boolean" THEN (IF x.b THEN NumInt(1) ELSE NumInt(0))
    ELSE IF x.t # "string" THEN NaN
    ELSE LET cs == x.s
             dots == {i \in 1..Len(cs) : cs[i] = "."}
         IN  IF cs = <<>> THEN NumInt(0)
             ELSE IF \E i \in 1..Len(cs) : ~IsDigit(cs[i]) /\ cs[i] # "." THEN NaN
             ELSE IF dots = {} THEN NumInt(DigitsValue(cs))
             ELSE IF Cardinality(dots) > 1 \/ Len(cs) = 1 THEN NaN
             ELSE LET p == CHOOSE i \in dots : TRUE
                      whole == SubSeq(cs, 1, p - 1)
                      frac == SubSeq(cs, p + 1, Len(cs))
                  IN  Num(DigitsValue(whole \o frac), Pow10(Len(frac)))

\* Boolean(x): truthiness; every non-empty string is true, "false" included
ToBoolean(x) ==
    IF x.t = "boolean" THEN x.b
    ELSE IF x.t = "string" THEN x.s # <<>>
    ELSE IF x.t = "number" THEN ~(IsNaN(x) \/ (x.d = 1 /\ x.n = 0))
    ELSE IF x.t = "undefined" THEN FALSE
    ELSE TRUE

\* ------------------------------------------------------------------------
\* AbstractSyntaxTree: the kind enums and the node classes
\* ------------------------------------------------------------------------
CommandKind_NIL == 0
CommandKind_DECLARATION_COMMAND == 1
CommandKind_COMMAND_COMMAND == 2
CommandKind_ASSIGNMENT == 3
CommandKind_IF == 4
CommandKind_IF_ELSE == 5
CommandKind_WHILE == 6
CommandKind_PRINT == 7
ExpressionKind_VALUE == 9
ExpressionKind_IDENTIFICATOR == 10
ExpressionKind_UNARY_OPERATOR == 11
ExpressionKind_BINARY_OPERATOR == 12
ExpressionKind_PARENTHESIS == 13
DeclarationKind_NIL == 15
DeclarationKind_CONSTANT == 16
DeclarationKind_VARIABLE == 17
DeclarationKind_DECLARATION_DECLARATION == 18
ValueKind_BOOLEAN == 20
ValueKind_NUMBER == 21
TypeKind_BOOLEAN == 22
TypeKind_NUMBER == 23

\* new Node(children, kind): CommandNode, DeclarationNode and ExpressionNode
\* add no field of their own
Node(children, kind) == [kind |-> kind, children |-> children]

IsObject(x) == "t" \notin DOMAIN x
\* node.kind, undefined when the object has no such property
HasKind(x, k) == IsObject(x) /\ "kind" \in DOMAIN x /\ x.kind = k
\* node.children[i - 1]
Child(node, i) == IF i <= Len(node.children) THEN node.children[i] ELSE Undefined
\* object.name, undefined when the object has no such property
Field(x, name) == IF name \in DOMAIN x THEN x[name] ELSE Undefined

\* ------------------------------------------------------------------------
\* Interpreter: errors
\* ------------------------------------------------------------------------
Ok(v) == [ok |-> TRUE, v |-> v]
StaticError(message, errorType) ==
    [ok |-> FALSE, class |-> "StaticError", errorType |-> errorType, message |-> message]
DynamicError(message, errorType) ==
    [ok |-> FALSE, class |-> "DynamicError", errorType |-> errorType, message |-> message]
\* a thrown value that is no InterpreterError: the string 'undefined' of
\* RHO_0 and SIGMA_0, or the TypeError of a property read on undefined
ThrowOther(what) ==
    [ok |-> FALSE, class |-> what, errorType |-> "none", message |-> <<what>>]
IsInterpreterError(e) == e.class \in {"StaticError", "DynamicError"}

WrongType(expected, found) ==
    StaticError(<<"expected", expected, "type, but found", TypeOf(found), "type">>, "WRONG_TYPE")
UndefinedIdentificator(identificator) ==
    StaticError(<<"undefined identificator", identificator>>, "UNDEFINED_IDENTIFICATOR")
DivisionByZero == DynamicError(<<"division by zero">>, "DIVISION_BY_ZERO")

\* ------------------------------------------------------------------------
\* Interpreter: rho and sigma are closures.  A closure made by extend holds
\* (newKey, newValue, map); the chain is kept as the sequence of its
\* (key, value) pairs, innermost first, ending in RHO_0 / SIGMA_0.
\* ------------------------------------------------------------------------
RHO_0 == <<>>
SIGMA_0 == <<>>

\* the new pair behind the older ones, where an older pair with the same key hides it
MutExtendBehind(map, newKey, newValue) == map \o <<[key |-> newKey, value |-> newValue]>>

\* `(key) => key === newKey ? newValue : map(key)`
extend(map, newKey, newValue) == <<[key |-> newKey, value |-> newValue]>> \o map

\* map(key): the innermost pair whose key === the argument, else the
\* 'undefined' thrown by RHO_0 / SIGMA_0
RECURSIVE Apply(_, _)
Apply(map, key) ==
    IF map = <<>> THEN ThrowOther("undefined")
    ELSE IF StrictEquals(key, Head(map).key) THEN Ok(Head(map).value)
    ELSE Apply(Tail(map), key)

\* a token test that takes the first Symbol for no token at all
MutFirstTokenIsFalsy(value) == TypeOf(value) = "symbol" /\ value # Symbol(0)

isLocation(value) == TypeOf(value) = "symbol"

\* one token handed out again and again
MutNewLocationReused(n) == Symbol(0)

\* `Symbol()`: a token equal to none made before
newLocation(n) == Symbol(n)

\* ------------------------------------------------------------------------
\* Interpreter.evaluate
\* ------------------------------------------------------------------------
Op(chars) == Str(chars)

\* the `if (typeof value1 === T) if (typeof value2 === T) ... else throw`
\* ladder shared by the typed binary operators
Guarded(type, value1, value2, result) ==
    IF TypeOf(value1) = type
    THEN IF TypeOf(value2) = type THEN result ELSE WrongType(type, value2)
    ELSE WrongType(type, value1)

MutZeroGuardOnLeft(value1, value2, result) ==
    IF ~StrictEquals(value1, NumInt(0)) THEN result ELSE DivisionByZero

\* `if (value2 !== 0) ... else throw new DynamicError('division by zero')`
ZeroGuarded(value1, value2, result) ==
    IF ~StrictEquals(value2, NumInt(0)) THEN result ELSE DivisionByZero

\* the switch (operator) of the BINARY_OPERATOR case
ApplyBinary(operator, value1, value2) ==
    CASE operator = Op(<<"+">>) ->
            Guarded("number", value1, value2, Ok(JsAdd(value1, value2)))
      [] operator = Op(<<"-">>) ->
            Guarded("number", value1, value2, Ok(JsSub(value1, value2)))
      [] operator = Op(<<"*">>) ->
            Guarded("number", value1, value2, Ok(JsMul(value1, value2)))
      [] operator = Op(<<"/">>) ->
            Guarded("number", value1, value2,
                    ZeroGuarded(value1, value2, Ok(JsDiv(value1, value2))))
      [] operator = Op(<<"=", "=">>) ->
            IF TypeOf(value1) = TypeOf(value2)
            THEN Ok(Bool(StrictEquals(value1, value2)))
            ELSE WrongType(TypeOf(value1), value2)
      [] operator = Op(<<"!", "=">>) ->
            IF TypeOf(value1) = TypeOf(value2)
            THEN Ok(Bool(StrictEquals(value1, value2)))
            ELSE WrongType(TypeOf(value1), value2)
      [] operator = Op(<<"<">>) ->
            Guarded("number", value1, value2, Ok(Bool(JsLess(value1, value2))))
      [] operator = Op(<<">">>) ->
            Guarded("number", value1, value2, Ok(Bool(JsLess(value2, value1))))
      [] operator = Op(<<"<", "=">>) ->
            Guarded("number", value1, value2, Ok(Bool(JsLessEq(value1, value2))))
      [] operator = Op(<<">", "=">>) ->
            Guarded("number", value1, value2, Ok(Bool(JsLessEq(value2, value1))))
      [] operator = Op(<<"&", "&">>) ->
            Guarded("boolean", value1, value2, Ok(Bool(value1.b /\ value2.b)))
      [] operator = Op(<<"|", "|">>) ->
            Guarded("boolean", value1, value2, Ok(Bool(value1.b \/ value2.b)))
      [] operator = Op(<<"/", "/">>) ->
            Guarded("number", value1, value2,
                    ZeroGuarded(value1, value2, Ok(MathFloor(JsDiv(value1, value2)))))
      [] operator = Op(<<"%">>) ->
            Guarded("number", value1, value2,
                    ZeroGuarded(value1, value2, Ok(JsRem(value1, value2))))
      [] operator = Op(<<"^">>) ->
            Guarded("number", value1, value2, Ok(MathPow(value1, value2)))
      [] OTHER -> DynamicError(<<"unknown operator", operator>>, "UNKNOWN_OPERATOR")

\* the switch (operator) of the UNARY_OPERATOR case; "fallthrough" when no
\* case matches and control runs on into case BINARY_OPERATOR
ApplyUnary(operator, value) ==
    CASE operator = Op(<<"!">>) ->
            IF TypeOf(value) = "boolean" THEN Ok(Bool(~value.b))
            ELSE WrongType("boolean", value)
      [] operator = Op(<<"+">>) ->
            IF TypeOf(value) = "number" THEN Ok(value) ELSE WrongType("number", value)
      [] operator = Op(<<"-">>) ->
            IF TypeOf(value) = "number" THEN Ok(value) ELSE WrongType("boolean", value)
      [] OTHER -> [ok |-> FALSE, class |-> "fallthrough"]

\* case IDENTIFICATOR from `try { rhoResult = rho(identificator) }` on
Lookup(rho, sigma, identificator) ==
    LET rhoResult == Apply(rho, identificator)
    IN  IF ~rhoResult.ok THEN UndefinedIdentificator(identificator)
        ELSE IF isLocation(rhoResult.v) THEN Apply(sigma, rhoResult.v)
        ELSE rhoResult

RECURSIVE evaluate(_, _, _)
\* the right operand evaluated before the left one
MutEvaluateBinaryRightFirst(expression, rho, sigma) ==
    LET value2 == evaluate(Child(expression, 3), rho, sigma)
    IN  IF ~value2.ok THEN value2
        ELSE LET value1 == evaluate(Child(expression, 1), rho, sigma)
             IN  IF ~value1.ok THEN value1
                 ELSE ApplyBinary(Child(expression, 2), value1.v, value2.v)

\* case BINARY_OPERATOR: both operands are evaluated, left first, before
\* the operator is looked at
EvaluateBinary(expression, rho, sigma) ==
    LET operand1 == Child(expression, 1)
        operator == Child(expression, 2)
        operand2 == Child(expression, 3)
        value1 == evaluate(operand1, rho, sigma)
    IN  IF ~value1.ok THEN value1
        ELSE LET value2 == evaluate(operand2, rho, sigma)
             IN  IF ~value2.ok THEN value2
                 ELSE ApplyBinary(operator, value1.v, value2.v)

evaluate(expression, rho, sigma) ==
    IF TypeOf(expression) = "undefined" THEN ThrowOther("TypeError")
    ELSE IF HasKind(expression, ExpressionKind_VALUE) THEN
        LET valueNode == Child(expression, 1)
        IN  IF TypeOf(valueNode) = "undefined" THEN ThrowOther("TypeError")
            ELSE IF HasKind(valueNode, ValueKind_NUMBER)
                THEN Ok(ToNumber(Field(valueNode, "token")))
            ELSE IF HasKind(valueNode, ValueKind_BOOLEAN)
                THEN Ok(Bool(ToBoolean(Field(valueNode, "token"))))
            ELSE Lookup(rho, sigma, valueNode)
    ELSE IF HasKind(expression, ExpressionKind_IDENTIFICATOR) THEN
        Lookup(rho, sigma, Child(expression, 1))
    ELSE IF HasKind(expression, ExpressionKind_UNARY_OPERATOR) THEN
        LET operator == Child(expression, 1)
            value == evaluate(Child(expression, 2), rho, sigma)
        IN  IF ~value.ok THEN value
            ELSE LET r == ApplyUnary(operator, value.v)
                 IN  IF ~r.ok /\ r.class = "fallthrough"
                     THEN EvaluateBinary(expression, rho, sigma)
                     ELSE r
    ELSE IF HasKind(expression, ExpressionKind_BINARY_OPERATOR) THEN
        EvaluateBinary(expression, rho, sigma)
    ELSE IF HasKind(expression, ExpressionKind_PARENTHESIS) THEN
        evaluate(Child(expression, 1), rho, sigma)
    ELSE DynamicError(<<"unknown expression">>, "UNKNOWN_EXPRESSION")

\* ------------------------------------------------------------------------
\* Interpreter.elaborate; n is the number of Symbol()s made so far
\* ------------------------------------------------------------------------
Elaborated(rho, sigma, n) == [ok |-> TRUE, rho |-> rho, sigma |-> sigma, n |-> n]

RECURSIVE elaborate(_, _, _, _)
elaborate(declaration, rho, sigma, n) ==
    IF TypeOf(declaration) = "undefined" THEN ThrowOther("TypeError")
    ELSE IF HasKind(declaration, DeclarationKind_NIL) THEN Elaborated(rho, sigma, n)
    ELSE IF HasKind(declaration, DeclarationKind_VARIABLE) THEN
        LET identificator == Child(declaration, 1)
            expression == Child(declaration, 2)
            location == newLocation(n)
            value == evaluate(expression, rho, sigma)
        IN  IF ~value.ok THEN value
            ELSE Elaborated(extend(rho, identificator, location),
                            extend(sigma, location, value.v), n + 1)
    ELSE IF HasKind(declaration, DeclarationKind_CONSTANT) THEN
        LET identificator == Child(declaration, 1)
            expression == Child(declaration, 2)
            value == evaluate(expression, rho, sigma)
        IN  IF ~value.ok THEN value
            ELSE Elaborated(extend(rho, identificator, value.v), sigma, n)
    ELSE IF HasKind(declaration, DeclarationKind_DECLARATION_DECLARATION) THEN
        LET r1 == elaborate(Child(declaration, 1), rho, sigma, n)
        IN  IF ~r1.ok THEN r1
            ELSE elaborate(Child(declaration, 2), r1.rho, r1.sigma, r1.n)
    ELSE StaticError(<<"unknown declaration">>, "UNKNOWN_DECLARATION")

\* ------------------------------------------------------------------------
\* Trees in the shape interpreter.ts destructures: the identificator is the
\* string AST.Identificator, the ValueNode carries the literal's text in
\* `token`, the operator is the operator's text
\* ------------------------------------------------------------------------
Ident(name) == Str(<<name>>)
TokenValueNode(kind, chars) == [kind |-> kind, children |-> <<>>, token |-> Str(chars)]
NumberLit(chars) == Node(<<TokenValueNode(ValueKind_NUMBER, chars)>>, ExpressionKind_VALUE)
BooleanLit(chars) == Node(<<TokenValueNode(ValueKind_BOOLEAN, chars)>>, ExpressionKind_VALUE)
Var(name) == Node(<<Ident(name)>>, ExpressionKind_IDENTIFICATOR)
Unary(operator, e) == Node(<<Op(operator), e>>, ExpressionKind_UNARY_OPERATOR)
Binary(e1, operator, e2) == Node(<<e1, Op(operator), e2>>, ExpressionKind_BINARY_OPERATOR)
Paren(e) == Node(<<e>>, ExpressionKind_PARENTHESIS)

Nil == Node(<<>>, CommandKind_NIL)
DeclCmd(d, c) == Node(<<d, c>>, CommandKind_DECLARATION_COMMAND)
Seqn(c1, c2) == Node(<<c1, c2>>, CommandKind_COMMAND_COMMAND)
Assign(name, e) == Node(<<Ident(name), e>>, CommandKind_ASSIGNMENT)
If(e, c) == Node(<<e, c>>, CommandKind_IF)
IfElse(e, c1, c2) == Node(<<e, c1, c2>>, CommandKind_IF_ELSE)
While(e, c) == Node(<<e, c>>, CommandKind_WHILE)
PrintCmd(e) == Node(<<e>>, CommandKind_PRINT)

NilDecl == Node(<<>>, DeclarationKind_NIL)
Let(name, e) == Node(<<Ident(name), e>>, DeclarationKind_VARIABLE)
Const(name, e) == Node(<<Ident(name), e>>, DeclarationKind_CONSTANT)
DeclDecl(d1, d2) == Node(<<d1, d2>>, DeclarationKind_DECLARATION_DECLARATION)

\* ------------------------------------------------------------------------
\* GRAMMAR.lex.rules.  A rule is a pattern and the token it returns; the
\* lexer takes the first rule, in table order, that matches at the cursor.
\* g is "part_001" or "lexer-parser" (src/src/lexer-parser.ts).
\* ------------------------------------------------------------------------
Lit(chars, token) == [kind |-> "lit", chars |-> chars, token |-> token]
Class(name, token) == [kind |-> "class", chars |-> <<name>>, token |-> token]

OperatorRules(g) ==
    <<Lit(<<"&", "&", "\"">>, "AND"),
      Lit(<<"|", "|">>, "OR"),
      Lit(<<">", "=">>, ">="),
      Lit(<<"<", "=">>, "<="),
      Lit(<<"=", "=">>, "=="),
      IF g = "part_001" THEN Lit(<<"!", "=">>, "!=") ELSE Lit(<<"!", "=", "\"">>, "!="),
      Lit(<<"!">>, "NOT"),
      Lit(<<">">>, ">"),
      Lit(<<"<">>, "<"),
      Lit(<<"=">>, "="),
      Lit(<<"/", "/">>, "//"),
      Lit(<<"*">>, "*"),
      Lit(<<"/">>, "/"),
      Lit(<<"+">>, "+"),
      Lit(<<"-">>, "-"),
      Lit(<<"%">>, "%"),
      Lit(<<"^">>, "^")>>

KeywordRules(g) ==
    IF g = "part_001"
    THEN <<Lit(<<"l", "e", "t">>, "LET"), Lit(<<"c", "o", "n", "s", "t">>, "CONST"),
           Lit(<<"i", "f">>, "IF"), Lit(<<"t", "h", "e", "n">>, "THEN"),
           Lit(<<"e", "l", "s", "e">>, "ELSE"), Lit(<<"w", "h", "i", "l", "e">>, "WHILE"),
           Lit(<<"d", "o">>, "DO"), Lit(<<"f", "o", "r">>, "FOR"),
           Lit(<<"p", "r", "i", "n", "t">>, "PRINT")>>
    ELSE <<Lit(<<"c", "o", "n", "s", "t">>, "CONST"), Lit(<<"l", "e", "t">>, "LET"),
           Lit(<<"i", "f">>, "IF"),
           Lit(<<"e", "l", "s", "e">>, "ELSE"), Lit(<<"w", "h", "i", "l", "e">>, "WHILE"),
           Lit(<<"d", "o">>, "DO"), Lit(<<"f", "o", "r">>, "FOR"),
           Lit(<<"p", "r", "i", "n", "t">>, "PRINT")>>

PunctuationRules ==
    <<Lit(<<"\n">>, "NEWLINE"), Lit(<<";">>, ";"), Lit(<<":">>, ":"), Lit(<<",">>, ","),
      Lit(<<"{">>, "{"), Lit(<<"}">>, "}"), Lit(<<"(">>, "("), Lit(<<")">>, ")")>>

TypeRules(g) ==
    IF g = "part_001"
    THEN <<Lit(<<"b", "o", "o", "l">>, "BOOLEAN_TYPE"), Lit(<<"n", "u", "m">>, "NUMBER_TYPE")>>
    ELSE <<Lit(<<"B", "o", "o", "l", "e", "a", "n">>, "BOOLEAN_TYPE"),
           Lit(<<"N", "u", "m", "b", "e", "r">>, "NUMBER_TYPE")>>

ValueRules ==
    <<Lit(<<"t", "r", "u", "e">>, "BOOLEAN_VALUE"), Lit(<<"f", "a", "l", "s", "e">>, "BOOLEAN_VALUE"),
      Class("number", "NUMBER_VALUE"), Class("identificator", "IDENTIFICATOR")>>

LexRules(g) ==
    KeywordRules(g) \o PunctuationRules \o OperatorRules(g) \o TypeRules(g) \o ValueRules

Letters ==
    {"a", "b", "c", "d", "e", "f", "g", "h", "i", "j", "k", "l", "m", "n", "o", "p", "q",
     "r", "s", "t", "u", "v", "w", "x", "y", "z", "_"}

IsIdentChar(c) == c \in Letters \/ IsDigit(c)

RECURSIVE DigitRun(_)
\* how many leading characters of cs are digits
DigitRun(cs) == IF cs # <<>> /\ IsDigit(Head(cs)) THEN 1 + DigitRun(Tail(cs)) ELSE 0

RECURSIVE IdentRun(_)
\* how many leading characters of cs are letters, digits or _
IdentRun(cs) == IF cs # <<>> /\ IsIdentChar(Head(cs)) THEN 1 + IdentRun(Tail(cs)) ELSE 0

\* the length of the text the rule matches at the start of cs, 0 for none
MatchLength(rule, cs) ==
    IF rule.kind = "lit" THEN
        (IF Len(cs) >= Len(rule.chars) /\ SubSeq(cs, 1, Len(rule.chars)) = rule.chars
         THEN Len(rule.chars) ELSE 0)
    ELSE IF rule.chars = <<"number">> THEN
        \* ([0-9]+[.])?[0-9]+
        LET w == DigitRun(cs)
            f == IF w > 0 /\ Len(cs) > w /\ cs[w + 1] = "."
                 THEN DigitRun(SubSeq(cs, w + 2, Len(cs))) ELSE 0
        IN  IF f > 0 THEN w + 1 + f ELSE w
    ELSE
        \* [a-zA-Z_][a-zA-Z0-9_]*
        IF cs # <<>> /\ Head(cs) \in Letters THEN IdentRun(cs) ELSE 0

\* the token the lexer returns at the start of cs and the length of its
\* text, or the lexical error of unrecognized text
Scan(g, cs) ==
    LET rules == LexRules(g)
        hits == {i \in 1..Len(rules) : MatchLength(rules[i], cs) > 0}
    IN  IF hits = {} THEN [token |-> "LEXICAL_ERROR", length |-> 0]
        ELSE LET i == CHOOSE k \in hits : \A j \in hits : k <= j
             IN  [token |-> rules[i].token, length |-> MatchLength(rules[i], cs)]

\* ------------------------------------------------------------------------
\* GRAMMAR.bnf.  A derivation is [p, s]: the production and its right-hand
\* side, each symbol a derivation or a token [token, text] as typed.  The
\* action of a production reads $i as the value of its i-th symbol.  What an
\* index past the right-hand side does is left to the parser generator: the
\* generated action either reads undefined there or names a variable that
\* does not exist (a ReferenceError); j says which
\* ------------------------------------------------------------------------
Tok(token, chars) == [token |-> token, text |-> chars]
Deriv(p, s) == [p |-> p, s |-> s]
IsToken(x) == "token" \in DOMAIN x

Dollar(v, i) == IF i <= Len(v) THEN v[i] ELSE Undefined
PastEndReadings == {"undefined", "ReferenceError"}

\* new AST.CommandNode(children, kind) and its siblings called without a
\* block, as every action of part_001 calls them
NodeWithBlock(children, kind, block) == [kind |-> kind, children |-> children, block |-> block]
\* AST.Node of lexer-parser.ts has no block
NewNode(g, children, kind) ==
    IF g = "part_001" THEN NodeWithBlock(children, kind, Undefined) ELSE Node(children, kind)

\* new AST.ValueNode($1, kind): part_001 takes (value, kind, block),
\* lexer-parser.ts takes (value, type, kind), so there kind is left undefined
ValueNode(g, text, kind) ==
    IF g = "part_001"
    THEN [kind |-> kind, children |-> <<>>, block |-> Undefined, value |-> text,
          type |-> IF kind = ValueKind_BOOLEAN THEN "bool" ELSE "num"]
    ELSE [children |-> <<>>, value |-> text, type |-> kind]

\* new AST.IdentificatorNode($1); ref tells one object from another
IdentificatorNode(g, text, ref) ==
    IF g = "part_001"
    THEN [kind |-> ExpressionKind_IDENTIFICATOR, children |-> <<>>, block |-> Undefined,
          identificator |-> text, ref |-> ref]
    ELSE [kind |-> ExpressionKind_IDENTIFICATOR, children |-> <<>>,
          identificator |-> text, ref |-> ref]

ParseTypeError == ThrowOther("TypeError")

\* $1.block.union($3.block): a TypeError when $1.block is undefined
UnionOfBlocks(a, b) ==
    IF TypeOf(Field(a, "block")) = "undefined" THEN ParseTypeError
    ELSE Ok([firstLine |-> a.block.firstLine, lastLine |-> b.block.lastLine,
             firstColumn |-> a.block.firstColumn, lastColumn |-> b.block.lastColumn])

\* 'FOR ( declaration , expression , single_command ) DO command_body'
ForAction_part_001(v) ==
    NodeWithBlock(<<Dollar(v, 3),
                    NodeWithBlock(<<Dollar(v, 5),
                                    NodeWithBlock(<<Dollar(v, 10), Dollar(v, 7)>>,
                                                  CommandKind_COMMAND_COMMAND, Undefined)>>,
                                  CommandKind_WHILE, Undefined)>>,
                  CommandKind_DECLARATION_COMMAND, Undefined)

\* 'FOR declaration , expression , single_command DO command_body'
ForAction_lexer_parser(v) ==
    Node(<<Dollar(v, 2),
           Node(<<Dollar(v, 4),
                  Node(<<Dollar(v, 11),
                         Node(<<Dollar(v, 6), Dollar(v, 8)>>, CommandKind_ASSIGNMENT)>>,
                       CommandKind_COMMAND_COMMAND)>>,
                CommandKind_WHILE)>>,
         CommandKind_DECLARATION_COMMAND)

\* the productions whose action names $i or @i past their right-hand side:
\* @1 of the empty command in part_001; $6, $10 and $11 of IF, IF_ELSE,
\* WHILE and FOR in lexer-parser.ts
PastEnd(g, p) ==
    IF g = "part_001" THEN p = "nil" ELSE p \in {"if", "if_else", "while", "for"}

\* the value $$ of production p of grammar g from the values v of its
\* symbols; ref numbers the node being built
Action(g, j, p, v, ref) ==
    LET new == g = "part_001"
    IN  IF j = "ReferenceError" /\ PastEnd(g, p) THEN ThrowOther("ReferenceError")
        ELSE
        CASE p \in {"command_single", "body_single", "operator", "separator"} -> Ok(Dollar(v, 1))
          [] p = "body_braces" -> Ok(Dollar(v, 2))
          [] p = "command_declaration" ->
                IF new
                THEN LET b == UnionOfBlocks(Dollar(v, 1), Dollar(v, 3))
                     IN  IF b.ok
                         THEN Ok(NodeWithBlock(<<Dollar(v, 1), Dollar(v, 3)>>,
                                               CommandKind_DECLARATION_COMMAND, b.v))
                         ELSE b
                ELSE Ok(Node(<<Dollar(v, 1), Dollar(v, 3)>>, CommandKind_DECLARATION_COMMAND))
          [] p = "command_sequence" ->
                IF new
                THEN LET b == UnionOfBlocks(Dollar(v, 1), Dollar(v, 3))
                     IN  IF b.ok
                         THEN Ok(NodeWithBlock(<<Dollar(v, 1), Dollar(v, 3)>>,
                                               CommandKind_COMMAND_COMMAND, b.v))
                         ELSE b
                ELSE Ok(Node(<<Dollar(v, 1), Dollar(v, 3)>>, CommandKind_COMMAND_COMMAND))
          [] p = "nil" ->
                \* `new CommandNode([], NIL), new Block(@1.firstLine, ...)`
                IF new THEN ParseTypeError ELSE Ok(NewNode(g, <<>>, CommandKind_NIL))
          [] p = "assignment" ->
                Ok(NewNode(g, <<Dollar(v, 1), Dollar(v, 3)>>, CommandKind_ASSIGNMENT))
          [] p = "if_else" ->
                Ok(IF new
                   THEN NewNode(g, <<Dollar(v, 2), Dollar(v, 4), Dollar(v, 6)>>, CommandKind_IF_ELSE)
                   ELSE NewNode(g, <<Dollar(v, 3), Dollar(v, 6), Dollar(v, 10)>>, CommandKind_IF_ELSE))
          [] p = "if" ->
                Ok(IF new
                   THEN NewNode(g, <<Dollar(v, 2), Dollar(v, 4)>>, CommandKind_IF)
                   ELSE NewNode(g, <<Dollar(v, 3), Dollar(v, 6)>>, CommandKind_IF))
          [] p = "while" ->
                Ok(IF new
                   THEN NewNode(g, <<Dollar(v, 2), Dollar(v, 4)>>, CommandKind_WHILE)
                   ELSE NewNode(g, <<Dollar(v, 2), Dollar(v, 6)>>, CommandKind_WHILE))
          [] p = "print" -> Ok(NewNode(g, <<Dollar(v, 2)>>, CommandKind_PRINT))
          [] p = "for" -> Ok(IF new THEN ForAction_part_001(v) ELSE ForAction_lexer_parser(v))
          [] p = "decl_nil" -> Ok(NewNode(g, <<>>, DeclarationKind_NIL))
          [] p = "let" ->
                Ok(IF new
                   THEN NewNode(g, <<Dollar(v, 2), Dollar(v, 4), Dollar(v, 6)>>, DeclarationKind_VARIABLE)
                   ELSE NewNode(g, <<Dollar(v, 3), Dollar(v, 4), Dollar(v, 6)>>, DeclarationKind_VARIABLE))
          [] p = "const" ->
                Ok(IF new
                   THEN NewNode(g, <<Dollar(v, 2), Dollar(v, 4), Dollar(v, 6)>>, DeclarationKind_CONSTANT)
                   ELSE NewNode(g, <<Dollar(v, 3), Dollar(v, 4), Dollar(v, 6)>>, DeclarationKind_CONSTANT))
          [] p = "decl_decl" ->
                Ok(NewNode(g, <<Dollar(v, 1), Dollar(v, 3)>>, DeclarationKind_DECLARATION_DECLARATION))
          [] p = "value" -> Ok(NewNode(g, <<Dollar(v, 1)>>, ExpressionKind_VALUE))
          [] p = "identificator_expression" ->
                Ok(NewNode(g, <<Dollar(v, 1)>>, ExpressionKind_IDENTIFICATOR))
          [] p = "unary" ->
                Ok(NewNode(g, <<Dollar(v, 1), Dollar(v, 2)>>, ExpressionKind_UNARY_OPERATOR))
          [] p = "binary" ->
                Ok(NewNode(g, <<Dollar(v, 1), Dollar(v, 2), Dollar(v, 3)>>,
                           ExpressionKind_BINARY_OPERATOR))
          [] p = "parenthesis" -> Ok(NewNode(g, <<Dollar(v, 2)>>, ExpressionKind_PARENTHESIS))
          [] p = "number_value" -> Ok(ValueNode(g, Dollar(v, 1), ValueKind_NUMBER))
          [] p = "boolean_value" -> Ok(ValueNode(g, Dollar(v, 1), ValueKind_BOOLEAN))
          [] p = "identificator" -> Ok(IdentificatorNode(g, Dollar(v, 1), ref))
          [] p = "number_type" -> Ok(NewNode(g, <<>>, TypeKind_NUMBER))
          [] p = "boolean_type" -> Ok(NewNode(g, <<>>, TypeKind_BOOLEAN))

\* the token as the lexer delivers it: its text must be one whole match of
\* the rule that returns this token
Lexes(g, tok) ==
    LET hit == Scan(g, tok.text)
    IN  hit.token = tok.token /\ hit.length = Len(tok.text)

RECURSIVE Build(_, _, _, _)
RECURSIVE BuildAll(_, _, _, _, _)
\* the values of the symbols s[i..], or the first failure among them
BuildAll(g, j, s, i, ref) ==
    IF i > Len(s) THEN Ok(<<>>)
    ELSE LET first == IF IsToken(s[i])
                      THEN (IF Lexes(g, s[i]) THEN Ok(Str(s[i].text))
                            ELSE ThrowOther("ParseError"))
                      ELSE Build(g, j, s[i], Append(ref, i))
         IN  IF ~first.ok THEN first
             ELSE LET rest == BuildAll(g, j, s, i + 1, ref)
                  IN  IF ~rest.ok THEN rest ELSE Ok(<<first.v>> \o rest.v)

\* PARSER.parse on the text the derivation d spells: the tree, or the
\* exception of the first symbol that fails (a token the lexer does not
\* deliver is a ParseError, a throwing action a TypeError)
Build(g, j, d, ref) ==
    LET v == BuildAll(g, j, d.s, 1, ref)
    IN  IF ~v.ok THEN v ELSE Action(g, j, d.p, v.v, ref)

parse(g, j, d) == Build(g, j, d, <<>>)

\* ------------------------------------------------------------------------
\* Bounds and the programs the interpreter is run on
\* ------------------------------------------------------------------------
\* operands of the printed binary expressions range over -MaxInt..MaxInt
MaxInt == 7
\* the counting loops count up to 0..MaxCount
MaxCount == 3
\* Symbol()s made before the run starts: 0..MaxBase
MaxBase == 1
\* commands executed before a run is cut off (only a loop that never ends
\* gets there: the longest terminating program needs 5 * MaxCount + 4)
StepBudget == 5 * MaxCount + 8

RECURSIVE Decimal(_)
\* the decimal text of a natural number
Decimal(k) == IF k < 10 THEN <<Digits[k + 1]>> ELSE Decimal(k \div 10) \o <<Digits[(k % 10) + 1]>>

\* an expression whose value is the integer k: literals are unsigned and
\* unary minus does not negate, so a negative number is written 0 - |k|
IntExpr(k) ==
    IF k >= 0 THEN NumberLit(Decimal(k))
    ELSE Binary(NumberLit(<<"0">>), <<"-">>, NumberLit(Decimal(-k)))

TrueExpr == BooleanLit(<<"t", "r", "u", "e">>)
FalseExpr == Unary(<<"!">>, TrueExpr)
DivZeroExpr == Binary(NumberLit(<<"1">>), <<"/">>, NumberLit(<<"0">>))

BinaryOperators ==
    {<<"+">>, <<"-">>, <<"*">>, <<"/">>, <<"/", "/">>, <<"%">>, <<"^">>,
     <<"<">>, <<">">>, <<"<", "=">>, <<">", "=">>, <<"=", "=">>, <<"!", "=">>,
     <<"&", "&">>, <<"|", "|">>}
ArithmeticOperators == {<<"+">>, <<"-">>, <<"*">>, <<"/">>, <<"/", "/">>, <<"%">>, <<"^">>}
RelationalOperators == {<<"<">>, <<">">>, <<"<", "=">>, <<">", "=">>}
LogicalOperators == {<<"&", "&">>, <<"|", "|">>}

IntOperands == {IntExpr(k) : k \in -MaxInt..MaxInt}
Operands == IntOperands \cup {TrueExpr, FalseExpr, Var("u"), DivZeroExpr}

\* print a op b
OperatorPrograms ==
    {PrintCmd(Binary(a, operator, b)) : a \in Operands, b \in Operands, operator \in BinaryOperators}

\* let i = 0; while i < n do { print i; i = i + 1 }
CountingLoop(n) ==
    DeclCmd(Let("i", NumberLit(<<"0">>)),
            While(Binary(Var("i"), <<"<">>, IntExpr(n)),
                  Seqn(PrintCmd(Var("i")),
                       Assign("i", Binary(Var("i"), <<"+">>, NumberLit(<<"1">>))))))

XPlusOne == Binary(Var("x"), <<"+">>, NumberLit(<<"1">>))
XLessTwo == Binary(Var("x"), <<"<">>, NumberLit(<<"2">>))

\* { let x = 7; x = x + 1; print x }: an inner x that shadows the outer one
ShadowFragment ==
    DeclCmd(Let("x", NumberLit(<<"7">>)), Seqn(Assign("x", XPlusOne), PrintCmd(Var("x"))))

\* the commands the scoped programs are put together from; x is a variable,
\* c a constant, u is never declared
Fragments ==
    {Nil,
     PrintCmd(Var("x")), PrintCmd(Var("c")), PrintCmd(Var("u")),
     PrintCmd(Binary(Var("x"), <<"+">>, Var("u"))),
     PrintCmd(Binary(DivZeroExpr, <<"+">>, Var("u"))),
     Assign("x", XPlusOne), Assign("x", DivZeroExpr), Assign("x", Var("u")),
     Assign("x", TrueExpr), Assign("x", Var("c")),
     Assign("c", NumberLit(<<"2">>)), Assign("c", Var("u")), Assign("c", DivZeroExpr),
     Assign("u", NumberLit(<<"1">>)),
     If(FalseExpr, PrintCmd(Var("u"))), If(TrueExpr, Assign("x", XPlusOne)),
     If(Var("x"), Nil), If(Var("u"), Nil),
     IfElse(XLessTwo, PrintCmd(NumberLit(<<"1">>)), Assign("x", NumberLit(<<"0">>))),
     IfElse(Var("c"), Nil, Nil),
     While(FalseExpr, PrintCmd(NumberLit(<<"1">>))),
     While(XLessTwo, Assign("x", XPlusOne)),
     While(Var("c"), Nil),
     ShadowFragment,
     DeclCmd(Const("x", TrueExpr), PrintCmd(Var("x"))),
     DeclCmd(DeclDecl(Let("c", Var("x")), Let("y", Var("c"))),
             Seqn(Assign("c", NumberLit(<<"4">>)), PrintCmd(Var("c")))),
     DeclCmd(Let("y", Var("y")), Nil),
     Node(<<>>, 8)}

\* let x = 1; const c = 5; f1; f2; print x; print c
Scoped(f1, f2) ==
    DeclCmd(DeclDecl(Let("x", NumberLit(<<"1">>)), Const("c", NumberLit(<<"5">>))),
            Seqn(f1, Seqn(f2, Seqn(PrintCmd(Var("x")), PrintCmd(Var("c"))))))

ScopedPrograms == {Scoped(f1, f2) : f1 \in Fragments, f2 \in Fragments}

RECURSIVE Increments(_)
\* x = x + 1, n times, then print x
Increments(n) == IF n = 0 THEN PrintCmd(Var("x")) ELSE Seqn(Assign("x", XPlusOne), Increments(n - 1))

\* let x = v; x = x + 1; ...; x = x + 1; print x
IncrementProgram(v, n) == DeclCmd(Let("x", IntExpr(v)), Increments(n))

IncrementPrograms == {IncrementProgram(v, n) : v \in 0..MaxInt, n \in 0..MaxCount}

\* let i = 0; while i < n do { let t = i; i = t + 1; print t }; print i
LoopDeclaration(n) ==
    DeclCmd(Let("i", NumberLit(<<"0">>)),
            Seqn(While(Binary(Var("i"), <<"<">>, IntExpr(n)),
                       DeclCmd(Let("t", Var("i")),
                               Seqn(Assign("i", Binary(Var("t"), <<"+">>, NumberLit(<<"1">>))),
                                    PrintCmd(Var("t"))))),
                 PrintCmd(Var("i"))))

LoopPrograms ==
    {CountingLoop(n) : n \in 0..MaxCount}
        \cup {LoopDeclaration(n) : n \in 0..MaxCount}
        \cup {While(BooleanLit(<<"f", "a", "l", "s", "e">>), PrintCmd(NumberLit(<<"1">>))),
              DeclCmd(NilDecl, While(TrueExpr, Nil))}

\* declarations whose initializers name what the same group declares
SeesEarlier ==
    DeclCmd(DeclDecl(Let("c", Var("x")), Let("y", Var("c"))), PrintCmd(Var("y")))
NotLater ==
    DeclCmd(DeclDecl(Let("y", Var("c")), Const("c", NumberLit(<<"2">>))),
            Seqn(PrintCmd(Var("y")), PrintCmd(Var("c"))))
NotLaterUndeclared ==
    DeclCmd(DeclDecl(Let("y", Var("u")), Let("u", NumberLit(<<"1">>))), PrintCmd(Var("y")))
SelfOuter == DeclCmd(Let("x", XPlusOne), PrintCmd(Var("x")))
SelfUndeclared == DeclCmd(Const("y", Var("y")), PrintCmd(Var("y")))

BindingPrograms ==
    {Scoped(f, Nil) : f \in {SeesEarlier, NotLater, NotLaterUndeclared, SelfOuter, SelfUndeclared}}

Trees ==
    OperatorPrograms \cup ScopedPrograms \cup LoopPrograms \cup IncrementPrograms
        \cup BindingPrograms

\* ------------------------------------------------------------------------
\* Program texts, as derivations of the grammar g
\* ------------------------------------------------------------------------
Chars_print == <<"p", "r", "i", "n", "t">>
Chars_while == <<"w", "h", "i", "l", "e">>
Chars_true == <<"t", "r", "u", "e">>
Chars_false == <<"f", "a", "l", "s", "e">>

TNumber(chars) == Deriv("value", <<Deriv("number_value", <<Tok("NUMBER_VALUE", chars)>>)>>)
TBoolean(chars) == Deriv("value", <<Deriv("boolean_value", <<Tok("BOOLEAN_VALUE", chars)>>)>>)
TIdentificator(name) == Deriv("identificator", <<Tok("IDENTIFICATOR", <<name>>)>>)
TVar(name) == Deriv("identificator_expression", <<TIdentificator(name)>>)
\* the token the grammar's binary_operator expects for the operator typed
OperatorToken(chars) ==
    IF chars = <<"&", "&">> THEN "AND"
    ELSE IF chars = <<"|", "|">> THEN "OR"
    ELSE IF Len(chars) = 1 THEN chars[1]
    ELSE IF chars = <<"/", "/">> THEN "//"
    ELSE IF chars = <<"<", "=">> THEN "<="
    ELSE IF chars = <<">", "=">> THEN ">="
    ELSE IF chars = <<"=", "=">> THEN "=="
    ELSE "!="
TBinary(a, chars, b) ==
    Deriv("binary", <<a, Deriv("operator", <<Tok(OperatorToken(chars), chars)>>), b>>)
TUnaryNot(a) == Deriv("unary", <<Deriv("operator", <<Tok("NOT", <<"!">>)>>), a>>)
TPrint(e) == Deriv("print", <<Tok("PRINT", Chars_print), e>>)
TAssign(name, e) == Deriv("assignment", <<TIdentificator(name), Tok("=", <<"=">>), e>>)
TNil == Deriv("nil", <<>>)
TSingle(c) == Deriv("command_single", <<c>>)
TBodySingle(c) == Deriv("body_single", <<c>>)
TBraces(c) == Deriv("body_braces", <<Tok("{", <<"{">>), c, Tok("}", <<"}">>)>>)
TSeparator == Deriv("separator", <<Tok(";", <<";">>)>>)
TSequence(c1, c2) == Deriv("command_sequence", <<c1, TSeparator, c2>>)
TDeclarationCommand(d, c) == Deriv("command_declaration", <<d, TSeparator, c>>)
TWhile(e, body) ==
    Deriv("while", <<Tok("WHILE", Chars_while), e, Tok("DO", <<"d", "o">>), body>>)
TNilDeclaration == Deriv("decl_nil", <<>>)
TNumberType(g) ==
    Deriv("number_type",
          <<Tok("NUMBER_TYPE", IF g = "part_001" THEN <<"n", "u", "m">>
                               ELSE <<"N", "u", "m", "b", "e", "r">>)>>)
\* `let i : num = e` in part_001, `let : Number i = e` in lexer-parser.ts
TLet(g, name, e) ==
    IF g = "part_001"
    THEN Deriv("let", <<Tok("LET", <<"l", "e", "t">>), TIdentificator(name), Tok(":", <<":">>),
                        TNumberType(g), Tok("=", <<"=">>), e>>)
    ELSE Deriv("let", <<Tok("LET", <<"l", "e", "t">>), Tok(":", <<":">>), TNumberType(g),
                        TIdentificator(name), Tok("=", <<"=">>), e>>)
\* `for (init, cond, step) do body` in part_001, `for init, cond, step do
\* body` in lexer-parser.ts
TFor(g, init, cond, step, body) ==
    IF g = "part_001"
    THEN Deriv("for", <<Tok("FOR", <<"f", "o", "r">>), Tok("(", <<"(">>), init, Tok(",", <<",">>),
                        cond, Tok(",", <<",">>), step, Tok(")", <<")">>),
                        Tok("DO", <<"d", "o">>), body>>)
    ELSE Deriv("for", <<Tok("FOR", <<"f", "o", "r">>), init, Tok(",", <<",">>),
                        cond, Tok(",", <<",">>), step, Tok("DO", <<"d", "o">>), body>>)

Grammars == {"part_001", "lexer-parser"}

TextOperands == {TBoolean(Chars_true), TBoolean(Chars_false), TNumber(<<"1">>), TNumber(<<"0">>)}

\* print a op b
TextOperatorPrograms ==
    {TSingle(TPrint(TBinary(a, operator, b))) :
        a \in TextOperands, b \in TextOperands, operator \in BinaryOperators}

ForInits(g) == {TNilDeclaration, TLet(g, "i", TNumber(<<"0">>))}
ForConds ==
    {TBoolean(Chars_false), TUnaryNot(TBoolean(Chars_false)),
     TBinary(TVar("i"), <<"<">>, TNumber(<<"3">>))}
ForSteps ==
    {TNil, TPrint(TNumber(<<"2">>)),
     TAssign("i", TBinary(TVar("i"), <<"+">>, TNumber(<<"1">>)))}
ForBodies ==
    {TBodySingle(TPrint(TNumber(<<"1">>))), TBodySingle(TPrint(TVar("i"))),
     TBraces(TSingle(TPrint(TBoolean(Chars_true))))}

\* the command a command_body holds
BodyCommand(body) == IF body.p = "body_braces" THEN body.s[2] ELSE TSingle(body.s[1])

\* init; while cond do { body; step }
HandExpanded(init, cond, step, body) ==
    TDeclarationCommand(init,
        TSingle(TWhile(cond, TBraces(TSequence(BodyCommand(body), TSingle(step))))))

\* a for whose declaration names itself: `for (let i : num = i, false,
\* print 2) do print 1` in part_001
SelfReference(g) ==
    TSingle(TFor(g, TLet(g, "i", TVar("i")), TBoolean(Chars_false),
                 TPrint(TNumber(<<"2">>)), TBodySingle(TPrint(TNumber(<<"1">>)))))

TextSources ==
    UNION {
        {[level |-> "text", grammar |-> g, pastEnd |-> j, form |-> "declaration",
          text |-> SelfReference(g)]}
        \cup
        {[level |-> "text", grammar |-> g, pastEnd |-> j, form |-> "operator", text |-> t]
            : t \in TextOperatorPrograms}
        \cup {[level |-> "text", grammar |-> g, pastEnd |-> j, form |-> "for",
               text |-> TSingle(TFor(g, i, c, st, b))]
            : i \in ForInits(g), c \in ForConds, st \in ForSteps, b \in ForBodies}
        \cup {[level |-> "text", grammar |-> g, pastEnd |-> j, form |-> "expanded",
               text |-> HandExpanded(i, c, st, b)]
            : i \in ForInits(g), c \in ForConds, st \in ForSteps, b \in ForBodies}
        \cup {[level |-> "text", grammar |-> g, pastEnd |-> j, form |-> "while",
               text |-> TSingle(TWhile(TBoolean(Chars_false),
                                       TBodySingle(TPrint(TNumber(<<"1">>)))))]}
        : g \in Grammars, j \in PastEndReadings}

TreeSources == {[level |-> "tree", tree |-> t] : t \in Trees}

\* ------------------------------------------------------------------------
\* Interpreter.run and Interpreter.execute.  The calls of execute that have
\* not returned are the frames of `stack`, innermost first; each holds the
\* command and the rho it was called with, and sigma is the store the
\* innermost call was handed.
\* ------------------------------------------------------------------------
VARIABLES
    source,     \* what the run was started from
    ast,        \* the tree handed to run
    pc,         \* "source", "parse failed", "parsed", "running", "thrown",
                \* "done", "uncaught"
    stack,      \* pending execute calls: [command, rho]
    sigma,      \* the current store
    out,        \* the values console.log printed, in order
    thrown,     \* the exception in flight or caught
    errlog,     \* the lines console.error printed
    symbols,    \* Symbol()s made so far
    steps       \* commands executed

vars == <<source, ast, pc, stack, sigma, out, thrown, errlog, symbols, steps>>

NoError == [ok |-> TRUE]
Frame(command, rho) == [command |-> command, rho |-> rho]

Init ==
    /\ source \in TreeSources \cup TextSources
    /\ ast = IF source.level = "tree" THEN source.tree ELSE Undefined
    /\ pc = IF source.level = "tree" THEN "parsed" ELSE "source"
    /\ stack = <<>>
    /\ sigma = SIGMA_0
    /\ out = <<>>
    /\ thrown = NoError
    /\ errlog = <<>>
    /\ symbols \in 0..MaxBase
    /\ steps = 0

\* ast = parser.parse(code): an exception of the parser ends the program
\* before run is called
Parse ==
    /\ pc = "source"
    /\ LET r == parse(source.grammar, source.pastEnd, source.text)
       IN  IF r.ok
           THEN /\ ast' = r.v
                /\ pc' = "parsed"
                /\ thrown' = thrown
           ELSE /\ ast' = ast
                /\ pc' = "parse failed"
                /\ thrown' = r
    /\ UNCHANGED <<source, stack, sigma, out, errlog, symbols, steps>>

\* run: execute(program, RHO_0, SIGMA_0)
RunStart ==
    /\ pc = "parsed"
    /\ pc' = "running"
    /\ stack' = <<Frame(ast, RHO_0)>>
    /\ sigma' = SIGMA_0
    /\ UNCHANGED <<source, ast, out, thrown, errlog, symbols, steps>>

Executing(kind) ==
    /\ pc = "running"
    /\ stack # <<>>
    /\ steps < StepBudget
    /\ HasKind(Head(stack).command, kind)

command == Head(stack).command
rho == Head(stack).rho

MutThrowKeepsGoing(e) ==
    /\ thrown' = e
    /\ pc' = "running"
    /\ stack' = Tail(stack)
    /\ steps' = steps + 1
    /\ UNCHANGED <<source, ast, sigma, out, errlog, symbols>>

\* a throw inside execute unwinds every pending call up to run's try
Throw(e) ==
    /\ thrown' = e
    /\ pc' = "thrown"
    /\ stack' = <<>>
    /\ steps' = steps + 1
    /\ UNCHANGED <<source, ast, sigma, out, errlog, symbols>>

\* the innermost call returns newSigma after calling execute on `calls`
Return(calls, newSigma) ==
    /\ stack' = calls \o Tail(stack)
    /\ sigma' = newSigma
    /\ steps' = steps + 1
    /\ UNCHANGED <<source, ast, pc, thrown, errlog>>

ExecNil ==
    /\ Executing(CommandKind_NIL)
    /\ Return(<<>>, sigma)
    /\ UNCHANGED <<out, symbols>>

\* the bindings of the declaration go to rho and its values are dropped
MutDeclarationDropsStore ==
    /\ Executing(CommandKind_DECLARATION_COMMAND)
    /\ LET r == elaborate(Child(command, 1), rho, sigma, symbols)
       IN  IF r.ok
           THEN /\ Return(<<Frame(Child(command, 2), r.rho)>>, sigma)
                /\ symbols' = r.n
                /\ out' = out
           ELSE Throw(r)

\* one environment for the whole run: the new bindings are handed to the
\* pending commands as well
MutDeclarationLeaks ==
    /\ Executing(CommandKind_DECLARATION_COMMAND)
    /\ LET r == elaborate(Child(command, 1), rho, sigma, symbols)
       IN  IF r.ok
           THEN /\ stack' = <<Frame(Child(command, 2), r.rho)>>
                                \o [i \in 1..Len(stack) - 1 |-> Frame(stack[i + 1].command, r.rho)]
                /\ sigma' = r.sigma
                /\ steps' = steps + 1
                /\ symbols' = r.n
                /\ UNCHANGED <<source, ast, pc, thrown, errlog, out>>
           ELSE Throw(r)

ExecDeclarationCommand ==
    /\ Executing(CommandKind_DECLARATION_COMMAND)
    /\ LET r == elaborate(Child(command, 1), rho, sigma, symbols)
       IN  IF r.ok
           THEN /\ Return(<<Frame(Child(command, 2), r.rho)>>, r.sigma)
                /\ symbols' = r.n
                /\ out' = out
           ELSE Throw(r)

ExecCommandCommand ==
    /\ Executing(CommandKind_COMMAND_COMMAND)
    /\ Return(<<Frame(Child(command, 1), rho), Frame(Child(command, 2), rho)>>, sigma)
    /\ UNCHANGED <<out, symbols>>

\* the right-hand side evaluated before the binding of the target is looked at
MutAssignmentEvaluatesFirst ==
    /\ Executing(CommandKind_ASSIGNMENT)
    /\ LET identificator == Child(command, 1)
           value == evaluate(Child(command, 2), rho, sigma)
           rhoResult == Apply(rho, identificator)
       IN  IF ~value.ok THEN Throw(value)
           ELSE IF ~rhoResult.ok THEN Throw(UndefinedIdentificator(identificator))
           ELSE IF isLocation(rhoResult.v) THEN
               /\ Return(<<>>, extend(sigma, rhoResult.v, value.v))
               /\ UNCHANGED <<out, symbols>>
           ELSE Throw(StaticError(<<"constant", identificator, "re-assignment">>,
                                  "CONSTANT_REASSIGNMENT"))

ExecAssignment ==
    /\ Executing(CommandKind_ASSIGNMENT)
    /\ LET identificator == Child(command, 1)
           expression == Child(command, 2)
           rhoResult == Apply(rho, identificator)
       IN  IF ~rhoResult.ok THEN Throw(UndefinedIdentificator(identificator))
           ELSE IF isLocation(rhoResult.v) THEN
               LET value == evaluate(expression, rho, sigma)
               IN  IF value.ok
                   THEN /\ Return(<<>>, extend(sigma, rhoResult.v, value.v))
                        /\ UNCHANGED <<out, symbols>>
                   ELSE Throw(value)
           ELSE Throw(StaticError(<<"constant", identificator, "re-assignment">>,
                                  "CONSTANT_REASSIGNMENT"))

ExecIf ==
    /\ Executing(CommandKind_IF)
    /\ LET value == evaluate(Child(command, 1), rho, sigma)
       IN  IF ~value.ok THEN Throw(value)
           ELSE IF TypeOf(value.v) = "boolean" THEN
               /\ Return(IF value.v.b THEN <<Frame(Child(command, 2), rho)>> ELSE <<>>, sigma)
               /\ UNCHANGED <<out, symbols>>
           ELSE Throw(WrongType("boolean", value.v))

ExecIfElse ==
    /\ Executing(CommandKind_IF_ELSE)
    /\ LET value == evaluate(Child(command, 1), rho, sigma)
       IN  IF ~value.ok THEN Throw(value)
           ELSE IF TypeOf(value.v) = "boolean" THEN
               /\ Return(<<Frame(Child(command, IF value.v.b THEN 2 ELSE 3), rho)>>, sigma)
               /\ UNCHANGED <<out, symbols>>
           ELSE Throw(WrongType("boolean", value.v))

\* the body executed once before the condition decides
MutWhileBodyFirst ==
    /\ Executing(CommandKind_WHILE)
    /\ LET value == evaluate(Child(command, 1), rho, sigma)
       IN  IF ~value.ok THEN Throw(value)
           ELSE IF TypeOf(value.v) = "boolean" THEN
               /\ Return(IF value.v.b
                         THEN <<Frame(Child(command, 2), rho), Frame(command, rho)>>
                         ELSE <<Frame(Child(command, 2), rho)>>, sigma)
               /\ UNCHANGED <<out, symbols>>
           ELSE Throw(WrongType("boolean", value.v))

\* execute(command, rho, execute(command1, rho, sigma)): the body runs
\* first and the loop is executed again on the store it returns
ExecWhile ==
    /\ Executing(CommandKind_WHILE)
    /\ LET value == evaluate(Child(command, 1), rho, sigma)
       IN  IF ~value.ok THEN Throw(value)
           ELSE IF TypeOf(value.v) = "boolean" THEN
               /\ Return(IF value.v.b
                         THEN <<Frame(Child(command, 2), rho), Frame(command, rho)>>
                         ELSE <<>>, sigma)
               /\ UNCHANGED <<out, symbols>>
           ELSE Throw(WrongType("boolean", value.v))

ExecPrint ==
    /\ Executing(CommandKind_PRINT)
    /\ LET value == evaluate(Child(command, 1), rho, sigma)
       IN  IF value.ok
           THEN /\ out' = Append(out, value.v)
                /\ Return(<<>>, sigma)
                /\ symbols' = symbols
           ELSE Throw(value)

CommandKinds == CommandKind_NIL..CommandKind_PRINT

\* the default case, and the TypeError of reading .kind of undefined
ExecUnknownCommand ==
    /\ pc = "running"
    /\ stack # <<>>
    /\ steps < StepBudget
    /\ \A kind \in CommandKinds : ~HasKind(command, kind)
    /\ IF TypeOf(command) = "undefined" THEN Throw(ThrowOther("TypeError"))
       ELSE Throw(DynamicError(<<"unknown command">>, "UNKNOWN_COMMAND"))

\* execute(program, ...) returned to run
RunReturn ==
    /\ pc = "running"
    /\ stack = <<>>
    /\ pc' = "done"
    /\ UNCHANGED <<source, ast, stack, sigma, out, thrown, errlog, symbols, steps>>

\* run's catch: an InterpreterError is reported, anything else is rethrown
RunCatch ==
    /\ pc = "thrown"
    /\ IF IsInterpreterError(thrown)
       THEN /\ errlog' = Append(errlog, [errorType |-> thrown.errorType,
                                         message |-> thrown.message])
            /\ pc' = "done"
       ELSE /\ errlog' = errlog
            /\ pc' = "uncaught"
    /\ UNCHANGED <<source, ast, stack, sigma, out, thrown, symbols, steps>>

Next ==
    \/ Parse
    \/ RunStart
    \/ ExecNil
    \/ ExecDeclarationCommand
    \/ ExecCommandCommand
    \/ ExecAssignment
    \/ ExecIf
    \/ ExecIfElse
    \/ ExecWhile
    \/ ExecPrint
    \/ ExecUnknownCommand
    \/ RunReturn
    \/ RunCatch

Spec == Init /\ [][Next]_vars

\* ------------------------------------------------------------------------
\* Interpreter.execute as the recursion it is written as.  n is the number
\* of Symbol()s made, printed what console.log has printed and calls the
\* number of calls of execute made so far; the result of a call that
\* returns carries the store, of one that throws the exception.
\* ------------------------------------------------------------------------
Returned(newSigma, n, printed, calls) ==
    [ok |-> TRUE, sigma |-> newSigma, n |-> n, out |-> printed, calls |-> calls]
Threw(e, printed) == [ok |-> FALSE, cut |-> FALSE, error |-> e, out |-> printed]
CutOff(printed) == [ok |-> FALSE, cut |-> TRUE, out |-> printed]

RECURSIVE execute(_, _, _, _, _, _)
execute(cmd, r, s, n, printed, calls) ==
    IF calls >= StepBudget THEN CutOff(printed)
    ELSE IF HasKind(cmd, CommandKind_NIL) THEN Returned(s, n, printed, calls + 1)
    ELSE IF HasKind(cmd, CommandKind_DECLARATION_COMMAND) THEN
        LET e == elaborate(Child(cmd, 1), r, s, n)
        IN  IF e.ok THEN execute(Child(cmd, 2), e.rho, e.sigma, e.n, printed, calls + 1)
            ELSE Threw(e, printed)
    ELSE IF HasKind(cmd, CommandKind_COMMAND_COMMAND) THEN
        LET r1 == execute(Child(cmd, 1), r, s, n, printed, calls + 1)
        IN  IF r1.ok THEN execute(Child(cmd, 2), r, r1.sigma, r1.n, r1.out, r1.calls)
            ELSE r1
    ELSE IF HasKind(cmd, CommandKind_ASSIGNMENT) THEN
        LET identificator == Child(cmd, 1)
            rhoResult == Apply(r, identificator)
        IN  IF ~rhoResult.ok THEN Threw(UndefinedIdentificator(identificator), printed)
            ELSE IF isLocation(rhoResult.v) THEN
                LET value == evaluate(Child(cmd, 2), r, s)
                IN  IF value.ok
                    THEN Returned(extend(s, rhoResult.v, value.v), n, printed, calls + 1)
                    ELSE Threw(value, printed)
            ELSE Threw(StaticError(<<"constant", identificator, "re-assignment">>,
                                   "CONSTANT_REASSIGNMENT"), printed)
    ELSE IF HasKind(cmd, CommandKind_IF) \/ HasKind(cmd, CommandKind_IF_ELSE)
            \/ HasKind(cmd, CommandKind_WHILE) THEN
        LET value == evaluate(Child(cmd, 1), r, s)
        IN  IF ~value.ok THEN Threw(value, printed)
            ELSE IF TypeOf(value.v) # "boolean" THEN Threw(WrongType("boolean", value.v), printed)
            ELSE IF HasKind(cmd, CommandKind_IF) THEN
                (IF value.v.b THEN execute(Child(cmd, 2), r, s, n, printed, calls + 1)
                 ELSE Returned(s, n, printed, calls + 1))
            ELSE IF HasKind(cmd, CommandKind_IF_ELSE) THEN
                execute(Child(cmd, IF value.v.b THEN 2 ELSE 3), r, s, n, printed, calls + 1)
            ELSE IF value.v.b THEN
                LET r1 == execute(Child(cmd, 2), r, s, n, printed, calls + 1)
                IN  IF r1.ok THEN execute(cmd, r, r1.sigma, r1.n, r1.out, r1.calls) ELSE r1
            ELSE Returned(s, n, printed, calls + 1)
    ELSE IF HasKind(cmd, CommandKind_PRINT) THEN
        LET value == evaluate(Child(cmd, 1), r, s)
        IN  IF value.ok THEN Returned(s, n, Append(printed, value.v), calls + 1)
            ELSE Threw(value, printed)
    ELSE IF TypeOf(cmd) = "undefined" THEN Threw(ThrowOther("TypeError"), printed)
    ELSE Threw(DynamicError(<<"unknown command">>, "UNKNOWN_COMMAND"), printed)

\* ------------------------------------------------------------------------
\* Properties
\* ------------------------------------------------------------------------
\* this step is a call of execute on a command of the given kind
Executes(kind) ==
    /\ pc = "running"
    /\ stack # <<>>
    /\ HasKind(command, kind)
    /\ steps' = steps + 1

\* ... and the call returned a store instead of throwing
Completes(kind) == Executes(kind) /\ pc' = "running"

\* ... and the call threw an error of this type
Fails(kind, errorType) ==
    /\ Executes(kind)
    /\ pc' = "thrown"
    /\ IsInterpreterError(thrown')
    /\ thrown'.errorType = errorType

Finished == pc \in {"done", "uncaught", "parse failed"}
RanTree(tree) == pc = "done" /\ source.level = "tree" /\ source.tree = tree
Reported(errorType) == Len(errlog) = 1 /\ errlog[1].errorType = errorType

\* C1: an ASSIGNMENT `id = expr` to a variable that completes returns a store
\* in which evaluating id gives the value expr had in the store the
\* assignment started from; so `let x = v; x = x + 1 (n times); print x`
\* prints v + n, and `let x = 5; x = x + 1; print x` prints 6
C1_ReadAfterWrite ==
    /\ [][Completes(CommandKind_ASSIGNMENT) =>
            evaluate(Node(<<Child(command, 1)>>, ExpressionKind_IDENTIFICATOR), rho, sigma')
                = evaluate(Child(command, 2), rho, sigma)]_vars
    /\ [](\A v \in 0..MaxInt, n \in 0..MaxCount :
            RanTree(IncrementProgram(v, n)) => errlog = <<>> /\ out = <<NumInt(v + n)>>)

C1_Witness ==
    /\ RanTree(IncrementProgram(5, 1))
    /\ out = <<NumInt(6)>>

\* the identificators the tree programs use
Names == {Ident("x"), Ident("c"), Ident("u"), Ident("y"), Ident("i")}

IsConstantIn(r, identificator) ==
    Apply(r, identificator).ok /\ ~isLocation(Apply(r, identificator).v)

\* C2: an ASSIGNMENT whose target is bound to a constant fails with
\* CONSTANT_REASSIGNMENT whatever its right-hand side is (one that would
\* itself fail included), the store and the output are left as they were,
\* and no step changes the value any pending command reads through a
\* constant
C2_ConstantReassignment ==
    /\ [][(Executes(CommandKind_ASSIGNMENT) /\ IsConstantIn(rho, Child(command, 1))) =>
            /\ Fails(CommandKind_ASSIGNMENT, "CONSTANT_REASSIGNMENT")
            /\ sigma' = sigma
            /\ out' = out
            /\ Lookup(rho, sigma', Child(command, 1)) = Apply(rho, Child(command, 1))]_vars
    /\ [][\A i \in 1..Len(stack) : \A identificator \in Names :
            IsConstantIn(stack[i].rho, identificator) =>
                Lookup(stack[i].rho, sigma', identificator)
                    = Lookup(stack[i].rho, sigma, identificator)]_vars

\* `c = u` on a constant c: the right-hand side names an undeclared identifier
C2_Witness ==
    /\ RanTree(Scoped(Assign("c", Var("u")), Nil))
    /\ Reported("CONSTANT_REASSIGNMENT")
    /\ out = <<>>

RECURSIVE ExpressionNamesUndeclared(_, _)
\* the expression names an identificator that is not in scope
ExpressionNamesUndeclared(e, scope) ==
    IF HasKind(e, ExpressionKind_IDENTIFICATOR) THEN Child(e, 1) \notin scope
    ELSE IF HasKind(e, ExpressionKind_UNARY_OPERATOR)
        THEN ExpressionNamesUndeclared(Child(e, 2), scope)
    ELSE IF HasKind(e, ExpressionKind_BINARY_OPERATOR)
        THEN \/ ExpressionNamesUndeclared(Child(e, 1), scope)
             \/ ExpressionNamesUndeclared(Child(e, 3), scope)
    ELSE IF HasKind(e, ExpressionKind_PARENTHESIS)
        THEN ExpressionNamesUndeclared(Child(e, 1), scope)
    ELSE FALSE

RECURSIVE Declares(_, _)
\* the scope after the declaration
Declares(d, scope) ==
    IF HasKind(d, DeclarationKind_VARIABLE) \/ HasKind(d, DeclarationKind_CONSTANT)
        THEN scope \cup {Child(d, 1)}
    ELSE IF HasKind(d, DeclarationKind_DECLARATION_DECLARATION)
        THEN Declares(Child(d, 2), Declares(Child(d, 1), scope))
    ELSE scope

RECURSIVE DeclarationNamesUndeclared(_, _)
DeclarationNamesUndeclared(d, scope) ==
    IF HasKind(d, DeclarationKind_VARIABLE) \/ HasKind(d, DeclarationKind_CONSTANT)
        THEN ExpressionNamesUndeclared(Child(d, 2), scope)
    ELSE IF HasKind(d, DeclarationKind_DECLARATION_DECLARATION)
        THEN \/ DeclarationNamesUndeclared(Child(d, 1), scope)
             \/ DeclarationNamesUndeclared(Child(d, 2), Declares(Child(d, 1), scope))
    ELSE FALSE

RECURSIVE CommandNamesUndeclared(_, _)
\* somewhere in the command an identificator is used that no enclosing
\* declaration declares
CommandNamesUndeclared(c, scope) ==
    IF HasKind(c, CommandKind_DECLARATION_COMMAND)
        THEN \/ DeclarationNamesUndeclared(Child(c, 1), scope)
             \/ CommandNamesUndeclared(Child(c, 2), Declares(Child(c, 1), scope))
    ELSE IF HasKind(c, CommandKind_COMMAND_COMMAND)
        THEN CommandNamesUndeclared(Child(c, 1), scope) \/ CommandNamesUndeclared(Child(c, 2), scope)
    ELSE IF HasKind(c, CommandKind_ASSIGNMENT)
        THEN Child(c, 1) \notin scope \/ ExpressionNamesUndeclared(Child(c, 2), scope)
    ELSE IF HasKind(c, CommandKind_IF) \/ HasKind(c, CommandKind_WHILE)
        THEN ExpressionNamesUndeclared(Child(c, 1), scope) \/ CommandNamesUndeclared(Child(c, 2), scope)
    ELSE IF HasKind(c, CommandKind_IF_ELSE)
        THEN \/ ExpressionNamesUndeclared(Child(c, 1), scope)
             \/ CommandNamesUndeclared(Child(c, 2), scope)
             \/ CommandNamesUndeclared(Child(c, 3), scope)
    ELSE IF HasKind(c, CommandKind_PRINT)
        THEN ExpressionNamesUndeclared(Child(c, 1), scope)
    ELSE FALSE

\* C3 as stated: every program that uses an undeclared identificator
\* anywhere (as an assignment target, in a condition, in a printed
\* expression or in an operand) ends with UNDEFINED_IDENTIFICATOR
C3_AnywhereFails ==
    (pc = "done" /\ source.level = "tree" /\ CommandNamesUndeclared(source.tree, {}))
        => Reported("UNDEFINED_IDENTIFICATOR")

RECURSIVE ReachesUndeclared(_, _, _)
\* evaluation gets to an identificator rho does not bind before anything
\* else fails: it is the expression itself, under a unary operator or
\* parentheses, in the left operand, or in the right operand when the left
\* one evaluates without error
ReachesUndeclared(e, r, s) ==
    IF HasKind(e, ExpressionKind_IDENTIFICATOR) THEN ~Apply(r, Child(e, 1)).ok
    ELSE IF HasKind(e, ExpressionKind_UNARY_OPERATOR) THEN ReachesUndeclared(Child(e, 2), r, s)
    ELSE IF HasKind(e, ExpressionKind_PARENTHESIS) THEN ReachesUndeclared(Child(e, 1), r, s)
    ELSE IF HasKind(e, ExpressionKind_BINARY_OPERATOR)
        THEN \/ ReachesUndeclared(Child(e, 1), r, s)
             \/ evaluate(Child(e, 1), r, s).ok /\ ReachesUndeclared(Child(e, 3), r, s)
    ELSE FALSE

\* C3: an undeclared identificator fails with UNDEFINED_IDENTIFICATOR when
\* execution gets to it: an executed ASSIGNMENT to it fails before its
\* right-hand side is looked at, and an executed PRINT, IF, IF_ELSE, WHILE,
\* ASSIGNMENT to a variable or single declaration fails when the evaluation
\* of its expression reaches the identificator, whatever the operator and
\* the other operand are; nothing is printed.  A use in a branch that is not
\* taken, or to the right of an operand that fails, raises nothing of the
\* kind.
C3_ReachedFails ==
    /\ [][(Executes(CommandKind_ASSIGNMENT) /\ ~Apply(rho, Child(command, 1)).ok) =>
            Fails(CommandKind_ASSIGNMENT, "UNDEFINED_IDENTIFICATOR")]_vars
    /\ [][\A kind \in {CommandKind_PRINT, CommandKind_IF, CommandKind_IF_ELSE, CommandKind_WHILE} :
            (Executes(kind) /\ ReachesUndeclared(Child(command, 1), rho, sigma)) =>
                Fails(kind, "UNDEFINED_IDENTIFICATOR") /\ out' = out]_vars
    /\ [][(/\ Executes(CommandKind_ASSIGNMENT)
           /\ Apply(rho, Child(command, 1)).ok
           /\ isLocation(Apply(rho, Child(command, 1)).v)
           /\ ReachesUndeclared(Child(command, 2), rho, sigma)) =>
            Fails(CommandKind_ASSIGNMENT, "UNDEFINED_IDENTIFICATOR") /\ sigma' = sigma]_vars
    /\ [][(/\ Executes(CommandKind_DECLARATION_COMMAND)
           /\ \/ HasKind(Child(command, 1), DeclarationKind_VARIABLE)
              \/ HasKind(Child(command, 1), DeclarationKind_CONSTANT)
           /\ ReachesUndeclared(Child(Child(command, 1), 2), rho, sigma)) =>
            Fails(CommandKind_DECLARATION_COMMAND, "UNDEFINED_IDENTIFICATOR")]_vars
    /\ [](RanTree(Scoped(If(FalseExpr, PrintCmd(Var("u"))), Nil)) =>
            errlog = <<>> /\ out = <<NumInt(1), NumInt(5)>>)
    /\ [](RanTree(PrintCmd(Binary(DivZeroExpr, <<"+">>, Var("u")))) =>
            Reported("DIVISION_BY_ZERO"))

\* `print true + u`: the other operand has the wrong type for the operator
C3_Witness ==
    /\ RanTree(PrintCmd(Binary(TrueExpr, <<"+">>, Var("u"))))
    /\ Reported("UNDEFINED_IDENTIFICATOR")
    /\ out = <<>>

RECURSIVE IntPow(_, _)
IntPow(a, b) == IF b = 0 THEN 1 ELSE a * IntPow(a, b - 1)

\* q is the greatest integer not above a / b
IsFloorOf(q, a, b) ==
    IF b > 0 THEN q * b <= a /\ a < (q + 1) * b
    ELSE q * b >= a /\ a > (q + 1) * b

\* r is what is left of a after taking away a multiple of b, smaller in
\* size than b and with the sign of a
IsRemainderOf(r, a, b) ==
    /\ Abs(r) < Abs(b)
    /\ (a - r) % Abs(b) = 0
    /\ r = 0 \/ Sign(r) = Sign(a)

PrintsBinary(a, operator, b) == RanTree(PrintCmd(Binary(IntExpr(a), operator, IntExpr(b))))

\* C4: on integers a and b, `a / b`, `a // b` and `a % b` fail with
\* DIVISION_BY_ZERO exactly when b is 0; otherwise `/` prints the quotient,
\* `//` its floor and `%` the remainder, and `a ^ b` prints a raised to b
C4_Arithmetic ==
    \A a \in -MaxInt..MaxInt, b \in -MaxInt..MaxInt :
        /\ \A operator \in {<<"/">>, <<"/", "/">>, <<"%">>} :
            PrintsBinary(a, operator, b) =>
                /\ (Reported("DIVISION_BY_ZERO") /\ out = <<>>) <=> (b = 0)
                /\ b # 0 => errlog = <<>> /\ Len(out) = 1 /\ TypeOf(out[1]) = "number"
        /\ (PrintsBinary(a, <<"/">>, b) /\ b # 0) =>
                out[1].d > 0 /\ out[1].n * b = a * out[1].d
        /\ (PrintsBinary(a, <<"/", "/">>, b) /\ b # 0) =>
                \E q \in -MaxInt..MaxInt : out = <<NumInt(q)>> /\ IsFloorOf(q, a, b)
        /\ (PrintsBinary(a, <<"%">>, b) /\ b # 0) =>
                \E r \in -MaxInt..MaxInt : out = <<NumInt(r)>> /\ IsRemainderOf(r, a, b)
        /\ PrintsBinary(a, <<"^">>, b) =>
                /\ errlog = <<>>
                /\ out = IF b >= 0 THEN <<NumInt(IntPow(a, b))>>
                         ELSE IF a = 0 THEN <<Infinity>>
                         ELSE <<Num(1, IntPow(a, -b))>>

\* `print 7 // 2` prints 3
C4_Witness ==
    /\ PrintsBinary(7, <<"/", "/">>, 2)
    /\ out = <<NumInt(3)>>

\* the operator is applied to an operand of a type it does not take
IllTyped(operator, type1, type2) ==
    IF operator \in ArithmeticOperators \cup RelationalOperators THEN "boolean" \in {type1, type2}
    ELSE operator \in LogicalOperators /\ "number" \in {type1, type2}

TreeOperandType(e) == IF e \in IntOperands THEN "number" ELSE "boolean"
TextOperandType(e) == IF e.s[1].p = "number_value" THEN "number" ELSE "boolean"

\* C5: `print a op b`, whose operands evaluate without error and one of
\* which has the wrong type for op, ends with WRONG_TYPE and prints nothing:
\* as a tree handed to run, and as a program text of the grammar of
\* src/unnamed/part_001 (`print true && 1` is one)
C5_WrongTypeOperand ==
    /\ \A a \in IntOperands \cup {TrueExpr, FalseExpr}, b \in IntOperands \cup {TrueExpr, FalseExpr} :
        \A operator \in BinaryOperators :
            (/\ Finished
             /\ source.level = "tree"
             /\ source.tree = PrintCmd(Binary(a, operator, b))
             /\ IllTyped(operator, TreeOperandType(a), TreeOperandType(b)))
                => Reported("WRONG_TYPE") /\ out = <<>>
    /\ \A a \in TextOperands, b \in TextOperands, operator \in BinaryOperators :
            (/\ Finished
             /\ source.level = "text"
             /\ source.grammar = "part_001"
             /\ source.text = TSingle(TPrint(TBinary(a, operator, b)))
             /\ IllTyped(operator, TextOperandType(a), TextOperandType(b)))
                => Reported("WRONG_TYPE") /\ out = <<>>

IsFalse(e) == evaluate(e, rho, sigma) = Ok(Bool(FALSE))

IsCountingLoop(n) == source.level = "tree" /\ source.tree = CountingLoop(n)
UpTo(n) == [i \in 1..n |-> NumInt(i - 1)]

\* parsed, running, over
Rank(p) == IF p = "parsed" THEN 0 ELSE IF p = "running" THEN 1 ELSE 2

\* C7: `let i = 0; while i < n do { print i; i = i + 1 }` with n >= 0 ends
\* without error after executing the body n times, having printed 0, 1, ...,
\* n-1 in that order: every step moves the run on, there are at most
\* 4 * n + 3 calls of execute, a run that is not over can take a step, no
\* error is raised, and what is printed on the way is a prefix of 0..n-1
C7_CountingLoopTerminates ==
    /\ [](\A n \in 0..MaxCount : IsCountingLoop(n) =>
            /\ pc \in {"parsed", "running", "done"}
            /\ thrown = NoError
            /\ steps <= 4 * n + 3
            /\ Len(out) <= n /\ out = UpTo(Len(out))
            /\ pc # "done" => ENABLED Next
            /\ pc = "done" => out = UpTo(n) /\ errlog = <<>>)
    /\ [][(\E n \in 0..MaxCount : IsCountingLoop(n)) =>
            \/ Rank(pc') > Rank(pc)
            \/ pc' = pc /\ steps' > steps]_vars

C7_Witness ==
    /\ RanTree(CountingLoop(3))
    /\ out = <<NumInt(0), NumInt(1), NumInt(2)>>
    /\ errlog = <<>>

\* the declaration, condition, step and body of a `for`, and where they
\* stand in its right-hand side
ForParts(g, f) ==
    IF g = "part_001"
    THEN [init |-> f.s[3], cond |-> f.s[5], step |-> f.s[7], body |-> f.s[10], at |-> <<3, 5, 7, 10>>]
    ELSE [init |-> f.s[2], cond |-> f.s[4], step |-> f.s[6], body |-> f.s[8], at |-> <<2, 4, 6, 8>>]

IsDesugaredFor(tree, init, cond, step, body) ==
    /\ HasKind(tree, CommandKind_DECLARATION_COMMAND)
    /\ Len(tree.children) = 2
    /\ tree.children[1] = init
    /\ HasKind(tree.children[2], CommandKind_WHILE)
    /\ Len(tree.children[2].children) = 2
    /\ tree.children[2].children[1] = cond
    /\ HasKind(tree.children[2].children[2], CommandKind_COMMAND_COMMAND)
    /\ tree.children[2].children[2].children = <<body, step>>

\* C8: a `for` whose declaration, condition, step and body parse is parsed
\* into DECLARATION_COMMAND(init, WHILE(cond, COMMAND_COMMAND(body, step))),
\* in both grammars, and the hand-written `init; while cond do { body; step }`
\* parses as well, so that the two run alike
C8_ForDesugaring ==
    (pc # "source" /\ source.level = "text" /\ source.form = "for") =>
        LET g == source.grammar
            j == source.pastEnd
            parts == ForParts(g, source.text.s[1])
            init == Build(g, j, parts.init, <<1, parts.at[1]>>)
            cond == Build(g, j, parts.cond, <<1, parts.at[2]>>)
            step == Build(g, j, parts.step, <<1, parts.at[3]>>)
            body == Build(g, j, parts.body, <<1, parts.at[4]>>)
        IN  (init.ok /\ cond.ok /\ step.ok /\ body.ok) =>
                /\ pc # "parse failed"
                /\ IsDesugaredFor(ast, init.v, cond.v, step.v, body.v)
                /\ parse(g, j, HandExpanded(parts.init, parts.cond, parts.step, parts.body)).ok

\* a is what is left of b after dropping some of its innermost bindings
IsSuffix(a, b) == Len(a) <= Len(b) /\ SubSeq(b, Len(b) - Len(a) + 1, Len(b)) = a

Locations == {Symbol(k) : k \in 0..symbols}

\* C9: extending rho or sigma leaves every map handed out before as it was:
\* the pending commands keep the rho they were called with, which is an
\* older part of the rho of the commands nested in them, and an assignment
\* changes what sigma returns at the assigned location only.  So a name
\* declared in a nested command is bound there only; when the nested command
\* is over the name is bound as before, and assignments to the inner binding
\* have not changed the value of the outer one.
C9_Scoping ==
    /\ [](\A i \in 1..Len(stack) - 1 : IsSuffix(stack[i + 1].rho, stack[i].rho))
    /\ [][(pc = "running" /\ pc' = "running" /\ steps' = steps + 1) =>
            /\ Len(stack') >= Len(stack) - 1
            /\ SubSeq(stack', Len(stack') - Len(stack) + 2, Len(stack')) = Tail(stack)]_vars
    /\ [][Completes(CommandKind_ASSIGNMENT) =>
            /\ \A l \in Locations :
                    l # Apply(rho, Child(command, 1)).v => Apply(sigma', l) = Apply(sigma, l)
            /\ \A i \in 2..Len(stack) : \A identificator \in Names :
                    Apply(stack[i].rho, identificator) # Apply(rho, identificator) =>
                        Lookup(stack[i].rho, sigma', identificator)
                            = Lookup(stack[i].rho, sigma, identificator)]_vars
    /\ [](RanTree(Scoped(ShadowFragment, Nil)) =>
            errlog = <<>> /\ out = <<NumInt(8), NumInt(1), NumInt(5)>>)
    /\ [](RanTree(Scoped(ShadowFragment, Assign("x", XPlusOne))) =>
            errlog = <<>> /\ out = <<NumInt(8), NumInt(2), NumInt(5)>>)
    /\ [](RanTree(Scoped(DeclCmd(Const("x", TrueExpr), PrintCmd(Var("x"))), Nil)) =>
            errlog = <<>> /\ out = <<Bool(TRUE), NumInt(1), NumInt(5)>>)

\* let x = 1; ...; { let x = 7; x = x + 1; print x }; print x; ...
C9_Witness ==
    /\ RanTree(Scoped(ShadowFragment, Nil))
    /\ out = <<NumInt(8), NumInt(1), NumInt(5)>>

\* C10: once an error is raised no command is executed any more: the output
\* and the store stay as they were when it was raised, the failing command
\* prints nothing, and what has been printed are the values of the PRINT
\* commands that completed, in order; run reports an interpreter error
\* once, with its kind and message, and reports nothing when there was none
C10_ErrorAborts ==
    /\ [][thrown # NoError =>
            out' = out /\ sigma' = sigma /\ stack' = stack /\ steps' = steps]_vars
    /\ [][(thrown = NoError /\ thrown' # NoError) =>
            out' = out /\ sigma' = sigma /\ stack' = <<>>]_vars
    /\ [][out' # out =>
            /\ Completes(CommandKind_PRINT)
            /\ out' = Append(out, evaluate(Child(command, 1), rho, sigma).v)]_vars
    /\ [][errlog' # errlog => pc = "thrown" /\ pc' = "done"]_vars
    /\ [](pc = "done" =>
            IF thrown = NoError THEN errlog = <<>>
            ELSE /\ IsInterpreterError(thrown)
                 /\ errlog = <<[errorType |-> thrown.errorType, message |-> thrown.message]>>)
    /\ [](RanTree(Scoped(PrintCmd(Var("x")), Assign("x", DivZeroExpr))) =>
            out = <<NumInt(1)>> /\ Reported("DIVISION_BY_ZERO"))

\* print x; x = 1 / 0; print x; print c: one value printed, one error
C10_Witness ==
    /\ RanTree(Scoped(PrintCmd(Var("x")), Assign("x", DivZeroExpr)))
    /\ out = <<NumInt(1)>>
    /\ Reported("DIVISION_BY_ZERO")

\* C11: two runs of the same program from (RHO_0, SIGMA_0) print the same
\* values in the same order and end the same way, whichever Symbols they
\* are given as locations: every run that is over, whatever number of
\* Symbols had been made before it started, has printed what execute prints
\* when it starts with the first Symbol, and has ended as it ends (normally,
\* or with the same error)
C11_Determinism ==
    pc \in {"done", "uncaught"} =>
        LET r == execute(ast, RHO_0, SIGMA_0, 0, <<>>, 0)
        IN  /\ r.ok \/ ~r.cut
            /\ out = r.out
            /\ r.ok <=> thrown = NoError
            /\ ~r.ok => thrown = r.error
            /\ ~r.ok => (pc = "done" <=> IsInterpreterError(r.error))

\* the loop that declares a variable in its body, run with locations that
\* are not the first Symbols
C11_Witness ==
    /\ RanTree(LoopDeclaration(2))
    /\ symbols = MaxBase + 3
    /\ out = <<NumInt(0), NumInt(1), NumInt(2)>>

KindIn(x, lo, hi) == IsObject(x) /\ "kind" \in DOMAIN x /\ x.kind \in lo..hi
IsCommandNode(x) == KindIn(x, CommandKind_NIL, CommandKind_PRINT)
IsExpressionNode(x) == KindIn(x, ExpressionKind_VALUE, ExpressionKind_PARENTHESIS)
IsDeclarationNode(x) == KindIn(x, DeclarationKind_NIL, DeclarationKind_DECLARATION_DECLARATION)
\* an identificator: the string, or the node the grammar makes of it
IsIdentificator(x) == TypeOf(x) = "string" \/ (IsObject(x) /\ "identificator" \in DOMAIN x)
NameOf(x) == IF TypeOf(x) = "string" THEN x ELSE x.identificator

\* the children the node must have for the interpreter to destructure it
ChildrenAsDestructured(node) ==
    LET c == node.children
        k == node.kind
    IN  CASE k = CommandKind_DECLARATION_COMMAND ->
                Len(c) = 2 /\ IsDeclarationNode(c[1]) /\ IsCommandNode(c[2])
          [] k = CommandKind_COMMAND_COMMAND ->
                Len(c) = 2 /\ IsCommandNode(c[1]) /\ IsCommandNode(c[2])
          [] k = CommandKind_ASSIGNMENT ->
                Len(c) = 2 /\ IsIdentificator(c[1]) /\ IsExpressionNode(c[2])
          [] k \in {CommandKind_IF, CommandKind_WHILE} ->
                Len(c) = 2 /\ IsExpressionNode(c[1]) /\ IsCommandNode(c[2])
          [] k = CommandKind_IF_ELSE ->
                Len(c) = 3 /\ IsExpressionNode(c[1]) /\ IsCommandNode(c[2]) /\ IsCommandNode(c[3])
          [] k = CommandKind_PRINT -> Len(c) = 1 /\ IsExpressionNode(c[1])
          [] k \in {DeclarationKind_VARIABLE, DeclarationKind_CONSTANT} ->
                Len(c) = 2 /\ IsIdentificator(c[1]) /\ IsExpressionNode(c[2])
          [] k = DeclarationKind_DECLARATION_DECLARATION ->
                Len(c) = 2 /\ IsDeclarationNode(c[1]) /\ IsDeclarationNode(c[2])
          [] OTHER -> TRUE

IsTreeNode(x) == IsObject(x) /\ "kind" \in DOMAIN x /\ "children" \in DOMAIN x

RECURSIVE WellShaped(_)
\* every command and declaration of the tree has the children its kind
\* stands for
WellShaped(node) ==
    IsTreeNode(node) =>
        /\ ChildrenAsDestructured(node)
        /\ \A i \in 1..Len(node.children) : WellShaped(node.children[i])

RECURSIVE KeysOf(_)
\* what the interpreter hands to rho for the tree: child 0 of the
\* IDENTIFICATOR expressions, assignments and declarations
KeysOf(node) ==
    IF ~IsTreeNode(node) THEN {}
    ELSE (IF /\ node.kind \in {ExpressionKind_IDENTIFICATOR, CommandKind_ASSIGNMENT,
                               DeclarationKind_VARIABLE, DeclarationKind_CONSTANT}
             /\ Len(node.children) >= 1
             /\ IsIdentificator(node.children[1])
          THEN {node.children[1]} ELSE {})
         \cup UNION {KeysOf(node.children[i]) : i \in 1..Len(node.children)}

\* C12: in every tree the parser returns, of either grammar, the children
\* of each node are the ones the interpreter destructures for its kind
\* (VARIABLE and CONSTANT [identificator, initializer], ASSIGNMENT
\* [identificator, expression], IF and WHILE [condition, command], IF_ELSE
\* [condition, command, command]), and two identificators of the same name
\* are the same key for rho
C12_ChildrenAsDestructured ==
    (pc = "parsed" /\ source.level = "text") =>
        /\ WellShaped(ast)
        /\ \A k1 \in KeysOf(ast), k2 \in KeysOf(ast) :
                NameOf(k1) = NameOf(k2) => StrictEquals(k1, k2)

\* the location tokens sigma has a value for, and the ones a rho binds
StoredLocations(s) == {s[i].key : i \in 1..Len(s)}
VariablesOf(r) == {i \in 1..Len(r) : isLocation(r[i].value)}

\* C13: no two elaborations of a VARIABLE declaration, those of one
\* declaration in a loop body included, get the same location: the tokens a
\* DECLARATION_COMMAND binds are not in the store it started from, differ
\* from one another and from every token made before, and the count of
\* tokens never goes down.  So no rho binds two of its variables to one
\* location, an assignment changes the value read through no other
\* identificator of any pending command, and
\* `let i = 0; while i < n do { let t = i; i = t + 1; print t }; print i`
\* prints 0, ..., n-1 and then n
C13_FreshLocations ==
    /\ [][Completes(CommandKind_DECLARATION_COMMAND) =>
            LET newRho == Head(stack').rho
                added == SubSeq(newRho, 1, Len(newRho) - Len(rho))
            IN  /\ IsSuffix(rho, newRho)
                /\ symbols' = symbols + Cardinality(VariablesOf(added))
                /\ \A i \in VariablesOf(added) :
                        /\ added[i].value \notin StoredLocations(sigma)
                        /\ added[i].value \in StoredLocations(sigma')
                        /\ \A k \in 0..symbols - 1 : added[i].value # Symbol(k)
                        /\ \A j \in VariablesOf(added) :
                                i # j => added[i].value # added[j].value]_vars
    /\ [][symbols' >= symbols]_vars
    /\ [](\A f \in 1..Len(stack) :
            \A i \in VariablesOf(stack[f].rho), j \in VariablesOf(stack[f].rho) :
                i # j => stack[f].rho[i].value # stack[f].rho[j].value)
    /\ [][Completes(CommandKind_ASSIGNMENT) =>
            \A f \in 1..Len(stack) : \A i \in 1..Len(stack[f].rho) :
                LET identificator == stack[f].rho[i].key
                IN  ~StrictEquals(identificator, Child(command, 1)) =>
                        Lookup(stack[f].rho, sigma', identificator)
                            = Lookup(stack[f].rho, sigma, identificator)]_vars
    /\ [](\A n \in 0..MaxCount :
            RanTree(LoopDeclaration(n)) =>
                errlog = <<>> /\ out = UpTo(n) \o <<NumInt(n)>>)

\* the loop body declared t three times, each time with a new location
C13_Witness ==
    /\ RanTree(LoopDeclaration(3))
    /\ out = <<NumInt(0), NumInt(1), NumInt(2), NumInt(3)>>
    /\ Cardinality(StoredLocations(sigma)) = 4

\* the operands of the equality programs, by the value they evaluate to
EqualityValues == {NumInt(k) : k \in -MaxInt..MaxInt} \cup {Bool(TRUE), Bool(FALSE)}
ExprOf(v) ==
    IF TypeOf(v) = "number" THEN IntExpr(v.n) ELSE IF v.b THEN TrueExpr ELSE FalseExpr
PrintsEquality(a, operator, b) == RanTree(PrintCmd(Binary(ExprOf(a), operator, ExprOf(b))))

\* C14: for a and b both numbers or both booleans `print a == b` prints
\* true exactly when a and b are equal and `print a != b` prints true
\* exactly when they differ; when the types of a and b differ both end with
\* WRONG_TYPE and print nothing
C14_Equality ==
    \A a \in EqualityValues, b \in EqualityValues :
        /\ PrintsEquality(a, <<"=", "=">>, b) =>
                IF TypeOf(a) = TypeOf(b)
                THEN errlog = <<>> /\ out = <<Bool(a = b)>>
                ELSE Reported("WRONG_TYPE") /\ out = <<>>
        /\ PrintsEquality(a, <<"!", "=">>, b) =>
                IF TypeOf(a) = TypeOf(b)
                THEN errlog = <<>> /\ out = <<Bool(a # b)>>
                ELSE Reported("WRONG_TYPE") /\ out = <<>>

\* the text a ValueNode was made from: its token, or its value property
LiteralText(valueNode) ==
    IF "token" \in DOMAIN valueNode THEN valueNode.token ELSE Field(valueNode, "value")

LiteralTexts ==
    {Str(<<"t", "r", "u", "e">>), Str(<<"f", "a", "l", "s", "e">>)}
        \cup {Str(Decimal(k)) : k \in 0..MaxInt}

\* the value the text of a literal denotes
Denoted(text) ==
    IF text = Str(<<"t", "r", "u", "e">>) THEN Bool(TRUE)
    ELSE IF text = Str(<<"f", "a", "l", "s", "e">>) THEN Bool(FALSE)
    ELSE NumInt(CHOOSE k \in 0..MaxInt : text = Str(Decimal(k)))

\* the expressions a call of execute on this command evaluates first
ExpressionsOf(cmd) ==
    IF cmd.kind \in {CommandKind_PRINT, CommandKind_IF, CommandKind_IF_ELSE, CommandKind_WHILE}
    THEN {Child(cmd, 1)}
    ELSE IF cmd.kind = CommandKind_ASSIGNMENT THEN {Child(cmd, 2)}
    ELSE {}

IsLiteral(e) ==
    /\ HasKind(e, ExpressionKind_VALUE)
    /\ IsObject(Child(e, 1))
    /\ LiteralText(Child(e, 1)) \in LiteralTexts

\* C15: a VALUE expression that a command of the run evaluates, in a tree
\* handed to run or in one a parser returned, evaluates to the literal it
\* was made from: `true` to true, `false` to false, the text of a number to
\* that number
C15_Literal ==
    (pc = "running" /\ stack # <<>> /\ IsObject(command) /\ "kind" \in DOMAIN command) =>
        \A e \in ExpressionsOf(command) :
            IsLiteral(e) =>
                evaluate(e, rho, sigma) = Ok(Denoted(LiteralText(Child(e, 1))))

IsSimpleDeclaration(d) ==
    HasKind(d, DeclarationKind_VARIABLE) \/ HasKind(d, DeclarationKind_CONSTANT)

\* this step elaborates [x, e]: e is evaluated in (r, s), where x is not yet
\* bound by this declaration; its failure is the step's failure, and its
\* value is what x reads afterwards
BindsAfterEvaluating(d, r, s) ==
    LET value == evaluate(Child(d, 2), r, s)
    IN  IF value.ok
        THEN pc' = "running" /\ Lookup(Head(stack').rho, sigma', Child(d, 1)) = value
        ELSE pc' = "thrown" /\ thrown' = value

\* C16: a declaration [x, e] evaluates e in the rho and sigma it is given,
\* before x is bound; in DECLARATION_DECLARATION(d1, d2) the initializer of
\* d1 is evaluated in the rho and sigma of the group and the one of d2 in
\* those d1 produced.  After `let x = 1; const c = 5`:
\* `let c = x; let y = c` binds y to 1, `let y = c; const c = 2` binds y to
\* 5, `let y = u; let u = 1` and `const y = y` fail with
\* UNDEFINED_IDENTIFICATOR, and `let x = x + 1` binds the inner x to 2.  The
\* same for a declaration of a program text of src/unnamed/part_001:
\* `for (let i : num = i, false, print 2) do print 1` fails with
\* UNDEFINED_IDENTIFICATOR
C16_SequentialBinding ==
    /\ [][(Executes(CommandKind_DECLARATION_COMMAND) /\ source.level = "tree") =>
            LET d == Child(command, 1)
            IN  /\ IsSimpleDeclaration(d) => BindsAfterEvaluating(d, rho, sigma)
                /\ (/\ HasKind(d, DeclarationKind_DECLARATION_DECLARATION)
                    /\ IsSimpleDeclaration(Child(d, 1))
                    /\ IsSimpleDeclaration(Child(d, 2))) =>
                        LET r1 == elaborate(Child(d, 1), rho, sigma, symbols)
                        IN  IF r1.ok
                            THEN BindsAfterEvaluating(Child(d, 2), r1.rho, r1.sigma)
                            ELSE /\ pc' = "thrown"
                                 /\ thrown' = evaluate(Child(Child(d, 1), 2), rho, sigma)]_vars
    /\ [](RanTree(Scoped(SeesEarlier, Nil)) =>
            errlog = <<>> /\ out = <<NumInt(1), NumInt(1), NumInt(5)>>)
    /\ [](RanTree(Scoped(NotLater, Nil)) =>
            errlog = <<>> /\ out = <<NumInt(5), NumInt(2), NumInt(1), NumInt(5)>>)
    /\ [](RanTree(Scoped(SelfOuter, Nil)) =>
            errlog = <<>> /\ out = <<NumInt(2), NumInt(1), NumInt(5)>>)
    /\ [](\A f \in {NotLaterUndeclared, SelfUndeclared} :
            RanTree(Scoped(f, Nil)) => Reported("UNDEFINED_IDENTIFICATOR") /\ out = <<>>)
    /\ [](\A j \in PastEndReadings :
            (/\ pc = "done"
             /\ source = [level |-> "text", grammar |-> "part_001", pastEnd |-> j,
                          form |-> "declaration", text |-> SelfReference("part_001")])
                => Reported("UNDEFINED_IDENTIFICATOR") /\ out = <<>>)

\* every location this rho binds has a value in this sigma
DefinedIn(r, s) == \A i \in VariablesOf(r) : r[i].value \in StoredLocations(s)

====
